---- MODULE Spec2Model ----
(***************************************************************************)
(* Conversation state machine of the Housing.com voice agent: slot         *)
(* extraction, the completion/confirmation gate, the rule-based responder  *)
(* and the search trigger of POST /chat, the refined search of             *)
(* POST /feedback, and the in-memory session store.                        *)
(*                                                                         *)
(* Text is modelled at character level: a JavaScript string is a sequence  *)
(* of one-character strings, so that String.includes, toLowerCase, trim    *)
(* and the regular expressions of the source are computed, not assumed.    *)
(* An optional value (a JavaScript property that may be undefined) is a    *)
(* sequence of length 0 (undefined) or 1 (the value).  Timestamps          *)
(* (new Date().toISOString()) are not modelled.                            *)
(***************************************************************************)
EXTENDS Integers, Sequences, FiniteSets, TLC

----------------------------------------------------------------------------
(* Bounds of the model                                                     *)

\* number of requests (chat turns, clears) in a run of Spec
MaxOps == 3
\* number of chat turns in a run of SpecScenario
MaxScenarioTurns == 4
\* number of requests (chat turns, feedback submissions) in a run of SpecFeedback
MaxFeedbackOps == 3
\* number of chat turns in a run of SpecTrigger
MaxTriggerTurns == 3
\* number of requests (chat turns, feedback submissions, clears) in a run of
\* SpecLifecycle
MaxLifecycleOps == 3
\* number of chat turns in a run of SpecExtract
MaxExtractTurns == 3
\* number of chat turns in a run of SpecHistory (two appends per turn)
MaxHistoryTurns == 6
\* number of evaluations of the gate in a run of SpecGate
MaxGateCalls == 1
\* number of chat turns begun in a run of SpecInterleave
MaxInterleavedTurns == 3
\* number of calls on the Redis-backed memory in a run of SpecRedis
MaxRedisCalls == 3
\* number of chat turns in a run of SpecStores
MaxStoreTurns == 4
\* number of queries built in a run of SpecQuery
MaxQueryCalls == 2
\* number of chat turns in a run of SpecServices
MaxServedTurns == 2
\* number of sales turns in a run of SpecSales
MaxSalesTurns == 3
\* number of sales turns in a run of SpecSummary
MaxSummaryTurns == 3
\* number of sales turns in a run of SpecLongCall (the history holds ten
\* messages; the seventh turn brings the thirteenth)
MaxCallTurns == 7
\* number of requests in a run of SpecValidation
MaxRequests == 3
\* number of requests (call requests, status webhooks, chat turns) in a run
\* of SpecCalls
MaxCallEvents == 3
\* number of calls of extractRequirements in a run of SpecSlots
MaxExtractCalls == 2
\* number of chat turns in a run of SpecForward
MaxForwardTurns == 3
\* number of requests (chat turns, clears) in a run of SpecClearing
MaxClearingOps == 4
\* number of sales turns in a run of SpecClosing
MaxClosingTurns == 3

----------------------------------------------------------------------------
(* Characters and strings                                                  *)

UpperCase ==
  <<"A","B","C","D","E","F","G","H","I","J","K","L","M","N","O","P","Q","R","S","T","U","V","W","X","Y","Z">>
LowerCase ==
  <<"a","b","c","d","e","f","g","h","i","j","k","l","m","n","o","p","q","r","s","t","u","v","w","x","y","z">>
Digits ==
  <<"0","1","2","3","4","5","6","7","8","9">>

Range(f) == { f[i] : i \in DOMAIN f }

IsDigit(c) == c \in Range(Digits)
\* [a-zA-Z]
IsLetter(c) == c \in Range(UpperCase) \cup Range(LowerCase)
\* \s (the utterances of the model contain no other white space than blanks)
IsWs(c) == c = " "
\* [a-zA-Z\s]
IsLetterOrWs(c) == IsLetter(c) \/ IsWs(c)

LowerChar(c) ==
  IF c \in Range(UpperCase)
    THEN LowerCase[CHOOSE i \in 1..26 : UpperCase[i] = c]
    ELSE c
UpperChar(c) ==
  IF c \in Range(LowerCase)
    THEN UpperCase[CHOOSE i \in 1..26 : LowerCase[i] = c]
    ELSE c

\* String.prototype.toLowerCase
toLowerCase(s) == [i \in 1..Len(s) |-> LowerChar(s[i])]

\* s.startsWith(sub, i - 1): sub occurs in s at (1-based) position i
OccursAt(s, sub, i) ==
  /\ i >= 1
  /\ i + Len(sub) - 1 <= Len(s)
  /\ \A k \in 1..Len(sub) : s[i + k - 1] = sub[k]

\* String.prototype.includes
includes(s, sub) == \E i \in 1..(Len(s) - Len(sub) + 1) : OccursAt(s, sub, i)

\* Array.prototype.includes on an array of strings
arrayIncludes(arr, x) == \E i \in 1..Len(arr) : arr[i] = x

\* String.prototype.trim
trim(s) ==
  LET keep == { i \in 1..Len(s) : ~IsWs(s[i]) }
  IN  IF keep = {} THEN <<>>
      ELSE SubSeq(s, CHOOSE i \in keep : \A j \in keep : i <= j,
                     CHOOSE i \in keep : \A j \in keep : i >= j)

Min(S) == CHOOSE x \in S : \A y \in S : x <= y

\* parseInt of a non-empty run of decimal digits
RECURSIVE parseInt(_)
parseInt(ds) ==
  IF ds = <<>> THEN 0
  ELSE 10 * parseInt(SubSeq(ds, 1, Len(ds) - 1))
       + ((CHOOSE i \in 1..10 : Digits[i] = ds[Len(ds)]) - 1)

\* `${n}` for a non-negative integer n
RECURSIVE numberToString(_)
numberToString(n) ==
  IF n < 10 THEN <<Digits[n + 1]>>
  ELSE numberToString(n \div 10) \o <<Digits[(n % 10) + 1]>>

\* Array.prototype.join(' ')
RECURSIVE joinWithSpace(_)
joinWithSpace(parts) ==
  IF parts = <<>> THEN <<>>
  ELSE IF Len(parts) = 1 THEN parts[1]
  ELSE parts[1] \o <<" ">> \o joinWithSpace(Tail(parts))

\* optional values: undefined, or a defined value
Undefined == <<>>
Some(v) == <<v>>
\* JavaScript truthiness of an optional string: defined and not ''
Truthy(o) == o # Undefined /\ o[1] # <<>>
\* JavaScript truthiness of an optional boolean (also: flag === true)
IsTrue(o) == o = Some(TRUE)

\* the number of events (connections, messages, closes, timers, webhooks)
\* of the voice streams
MaxStreamEvents == 4
\* aiConversation.js:182  indianCities, in source order (100 names)
indianCities ==
  << <<"m","u","m","b","a","i">>,
     <<"d","e","l","h","i">>,
     <<"b","a","n","g","a","l","o","r","e">>,
     <<"c","h","e","n","n","a","i">>,
     <<"h","y","d","e","r","a","b","a","d">>,
     <<"p","u","n","e">>,
     <<"k","o","l","k","a","t","a">>,
     <<"a","h","m","e","d","a","b","a","d">>,
     <<"j","a","i","p","u","r">>,
     <<"l","u","c","k","n","o","w">>,
     <<"k","a","n","p","u","r">>,
     <<"n","a","g","p","u","r">>,
     <<"i","n","d","o","r","e">>,
     <<"t","h","a","n","e">>,
     <<"b","h","o","p","a","l">>,
     <<"v","i","s","a","k","h","a","p","a","t","n","a","m">>,
     <<"p","i","m","p","r","i">>,
     <<"p","a","t","n","a">>,
     <<"v","a","d","o","d","a","r","a">>,
     <<"g","h","a","z","i","a","b","a","d">>,
     <<"l","u","d","h","i","a","n","a">>,
     <<"a","g","r","a">>,
     <<"n","a","s","h","i","k">>,
     <<"f","a","r","i","d","a","b","a","d">>,
     <<"m","e","e","r","u","t">>,
     <<"r","a","j","k","o","t">>,
     <<"k","a","l","y","a","n">>,
     <<"v","a","s","a","i">>,
     <<"v","a","r","a","n","a","s","i">>,
     <<"s","r","i","n","a","g","a","r">>,
     <<"a","u","r","a","n","g","a","b","a","d">>,
     <<"d","h","a","n","b","a","d">>,
     <<"a","m","r","i","t","s","a","r">>,
     <<"n","a","v","i"," ","m","u","m","b","a","i">>,
     <<"a","l","l","a","h","a","b","a","d">>,
     <<"r","a","n","c","h","i">>,
     <<"h","o","w","r","a","h">>,
     <<"c","o","i","m","b","a","t","o","r","e">>,
     <<"j","a","b","a","l","p","u","r">>,
     <<"g","w","a","l","i","o","r">>,
     <<"v","i","j","a","y","a","w","a","d","a">>,
     <<"j","o","d","h","p","u","r">>,
     <<"m","a","d","u","r","a","i">>,
     <<"r","a","i","p","u","r">>,
     <<"k","o","t","a">>,
     <<"g","u","w","a","h","a","t","i">>,
     <<"c","h","a","n","d","i","g","a","r","h">>,
     <<"s","o","l","a","p","u","r">>,
     <<"h","u","b","b","a","l","l","i">>,
     <<"t","i","r","u","c","h","i","r","a","p","p","a","l","l","i">>,
     <<"b","a","r","e","i","l","l","y">>,
     <<"m","y","s","o","r","e">>,
     <<"t","i","r","u","p","p","u","r">>,
     <<"g","u","r","g","a","o","n">>,
     <<"a","l","i","g","a","r","h">>,
     <<"j","a","l","a","n","d","h","a","r">>,
     <<"b","h","u","b","a","n","e","s","w","a","r">>,
     <<"s","a","l","e","m">>,
     <<"w","a","r","a","n","g","a","l">>,
     <<"m","i","r","a">>,
     <<"b","h","i","w","a","n","d","i">>,
     <<"s","a","h","a","r","a","n","p","u","r">>,
     <<"g","o","r","a","k","h","p","u","r">>,
     <<"b","i","k","a","n","e","r">>,
     <<"a","m","r","a","v","a","t","i">>,
     <<"n","o","i","d","a">>,
     <<"j","a","m","s","h","e","d","p","u","r">>,
     <<"b","h","i","l","a","i">>,
     <<"c","u","t","t","a","c","k">>,
     <<"f","i","r","o","z","a","b","a","d">>,
     <<"k","o","c","h","i">>,
     <<"n","e","l","l","o","r","e">>,
     <<"b","h","a","v","n","a","g","a","r">>,
     <<"d","e","h","r","a","d","u","n">>,
     <<"d","u","r","g","a","p","u","r">>,
     <<"a","s","a","n","s","o","l">>,
     <<"r","o","u","r","k","e","l","a">>,
     <<"n","a","n","d","e","d">>,
     <<"k","o","l","h","a","p","u","r">>,
     <<"a","j","m","e","r">>,
     <<"a","k","o","l","a">>,
     <<"g","u","l","b","a","r","g","a">>,
     <<"j","a","m","n","a","g","a","r">>,
     <<"u","j","j","a","i","n">>,
     <<"l","o","n","i">>,
     <<"s","i","l","i","g","u","r","i">>,
     <<"j","h","a","n","s","i">>,
     <<"u","l","h","a","s","n","a","g","a","r">>,
     <<"j","a","m","m","u">>,
     <<"s","a","n","g","l","i">>,
     <<"m","a","n","g","a","l","o","r","e">>,
     <<"e","r","o","d","e">>,
     <<"b","e","l","g","a","u","m">>,
     <<"a","m","b","a","t","t","u","r">>,
     <<"t","i","r","u","n","e","l","v","e","l","i">>,
     <<"m","a","l","e","g","a","o","n">>,
     <<"g","a","y","a">>,
     <<"j","a","l","g","a","o","n">>,
     <<"u","d","a","i","p","u","r">>,
     <<"m","a","h","e","s","h","t","a","l","a">> >>
ReplyIntro ==
  <<"H","e","l","l","o","!"," ","I","'","m"," ","S","a","r","a","h"," ","f","r","o","m"," ","H","o","u","s","i","n","g",".","c","o","m",","," ","y","o","u","r"," ","p","e","r","s","o","n","a","l"," ","p","r","o","p","e","r","t","y"," ","a","s","s","i","s","t","a","n","t","."," ","I","'","m"," ","h","e","r","e"," ","t","o"," ","h","e","l","p"," ","y","o","u"," ","f","i","n","d"," ","t","h","e"," ","p","e","r","f","e","c","t"," ","h","o","m","e","."," ","T","o"," ","g","e","t"," ","s","t","a","r","t","e","d",","," ","c","o","u","l","d"," ","y","o","u"," ","t","e","l","l"," ","m","e"," ","w","h","a","t"," ","t","y","p","e"," ","o","f"," ","p","r","o","p","e","r","t","y"," ","y","o","u","'","r","e"," ","l","o","o","k","i","n","g"," ","f","o","r"," ","-"," ","a","r","e"," ","y","o","u"," ","p","l","a","n","n","i","n","g"," ","t","o"," ","b","u","y"," ","o","r"," ","r","e","n","t","?">>
ReplySearching ==
  <<"P","e","r","f","e","c","t","!"," ","L","e","t"," ","m","e"," ","s","e","a","r","c","h"," ","f","o","r"," ","p","r","o","p","e","r","t","i","e","s"," ","m","a","t","c","h","i","n","g"," ","y","o","u","r"," ","c","r","i","t","e","r","i","a","."," ","I","'","l","l"," ","f","i","n","d"," ","t","h","e"," ","b","e","s","t"," ","o","p","t","i","o","n","s"," ","f","o","r"," ","y","o","u",".">>
ReplyModify ==
  <<"N","o"," ","p","r","o","b","l","e","m","!"," ","W","h","a","t"," ","w","o","u","l","d"," ","y","o","u"," ","l","i","k","e"," ","t","o"," ","c","h","a","n","g","e"," ","i","n"," ","y","o","u","r"," ","r","e","q","u","i","r","e","m","e","n","t","s","?"," ","P","l","e","a","s","e"," ","t","e","l","l"," ","m","e"," ","y","o","u","r"," ","u","p","d","a","t","e","d"," ","p","r","e","f","e","r","e","n","c","e","s",".">>
ReplyBuy ==
  <<"G","r","e","a","t","!"," ","Y","o","u","'","r","e"," ","l","o","o","k","i","n","g"," ","t","o"," ","b","u","y"," ","a"," ","p","r","o","p","e","r","t","y","."," ","W","h","a","t","'","s"," ","y","o","u","r"," ","b","u","d","g","e","t"," ","r","a","n","g","e",","," ","a","n","d"," ","w","h","i","c","h"," ","c","i","t","y"," ","a","r","e"," ","y","o","u"," ","c","o","n","s","i","d","e","r","i","n","g","?">>
ReplyRent ==
  <<"P","e","r","f","e","c","t","!"," ","Y","o","u","'","r","e"," ","l","o","o","k","i","n","g"," ","f","o","r"," ","a"," ","r","e","n","t","a","l"," ","p","r","o","p","e","r","t","y","."," ","W","h","a","t","'","s"," ","y","o","u","r"," ","m","o","n","t","h","l","y"," ","b","u","d","g","e","t",","," ","a","n","d"," ","w","h","i","c","h"," ","c","i","t","y"," ","w","o","u","l","d"," ","y","o","u"," ","p","r","e","f","e","r","?">>
ReplyAskType ==
  <<"I","'","d"," ","b","e"," ","h","a","p","p","y"," ","t","o"," ","h","e","l","p","!"," ","A","r","e"," ","y","o","u"," ","l","o","o","k","i","n","g"," ","t","o"," ","b","u","y"," ","o","r"," ","r","e","n","t"," ","a"," ","p","r","o","p","e","r","t","y","?">>
ReplyAskCity ==
  <<"W","h","i","c","h"," ","c","i","t","y"," ","a","r","e"," ","y","o","u"," ","l","o","o","k","i","n","g"," ","i","n","?"," ","A","n","d"," ","d","o"," ","y","o","u"," ","h","a","v","e"," ","a","n","y"," ","s","p","e","c","i","f","i","c"," ","l","o","c","a","l","i","t","y"," ","p","r","e","f","e","r","e","n","c","e","s","?">>
ReplyAskBhk ==
  <<"W","h","a","t"," ","t","y","p","e"," ","o","f"," ","c","o","n","f","i","g","u","r","a","t","i","o","n"," ","a","r","e"," ","y","o","u"," ","l","o","o","k","i","n","g"," ","f","o","r"," ","-"," ","1","B","H","K",","," ","2","B","H","K",","," ","3","B","H","K",","," ","o","r"," ","s","o","m","e","t","h","i","n","g"," ","e","l","s","e","?">>
ReplyAskBudget ==
  <<"C","o","u","l","d"," ","y","o","u"," ","s","h","a","r","e"," ","y","o","u","r"," ","b","u","d","g","e","t"," ","r","a","n","g","e","?"," ","T","h","i","s"," ","w","i","l","l"," ","h","e","l","p"," ","m","e"," ","f","i","n","d"," ","p","r","o","p","e","r","t","i","e","s"," ","t","h","a","t"," ","f","i","t"," ","y","o","u","r"," ","f","i","n","a","n","c","i","a","l"," ","c","o","m","f","o","r","t"," ","z","o","n","e",".">>
ReplyGeneric ==
  <<"I"," ","u","n","d","e","r","s","t","a","n","d","."," ","C","o","u","l","d"," ","y","o","u"," ","t","e","l","l"," ","m","e"," ","m","o","r","e"," ","a","b","o","u","t"," ","y","o","u","r"," ","s","p","e","c","i","f","i","c"," ","r","e","q","u","i","r","e","m","e","n","t","s"," ","s","o"," ","I"," ","c","a","n"," ","h","e","l","p"," ","y","o","u"," ","b","e","t","t","e","r","?">>
ConfirmPrefix ==
  <<"L","e","t"," ","m","e"," ","c","o","n","f","i","r","m"," ","y","o","u","r"," ","r","e","q","u","i","r","e","m","e","n","t","s",":"," ">>
ConfirmSuffix ==
  <<"."," ","S","h","o","u","l","d"," ","I"," ","s","e","a","r","c","h"," ","f","o","r"," ","p","r","o","p","e","r","t","i","e","s"," ","m","a","t","c","h","i","n","g"," ","t","h","e","s","e"," ","c","r","i","t","e","r","i","a","?">>

----------------------------------------------------------------------------
(* The regular expressions of extractRequirements                          *)

\* end of the maximal run of characters satisfying a class that starts at i
DigitRunEnd(s, i) ==
  CHOOSE e \in i..Len(s) :
    /\ \A k \in i..e : IsDigit(s[k])
    /\ e = Len(s) \/ ~IsDigit(s[e + 1])
ClassRunEnd(s, i) ==
  CHOOSE e \in i..Len(s) :
    /\ \A k \in i..e : IsLetterOrWs(s[k])
    /\ e = Len(s) \/ ~IsLetterOrWs(s[e + 1])

\* one of the alternatives (a|b|c) occurs at position i
AltAt(s, alts, i) == \E a \in 1..Len(alts) : OccursAt(s, alts[a], i)

\* s.match(/(\d+)\s?(alt1|alt2|...)/): group 1 of the leftmost match, or
\* Undefined.  \d+ is greedy and what follows it starts with a blank or a
\* letter, so a match always takes a whole run of digits.
matchNumberThen(s, alts) ==
  LET ok(i) == /\ IsDigit(s[i])
               /\ LET e == DigitRunEnd(s, i)
                  IN  \/ AltAt(s, alts, e + 1)
                      \/ e + 1 <= Len(s) /\ IsWs(s[e + 1]) /\ AltAt(s, alts, e + 2)
      starts == { i \in 1..Len(s) : ok(i) }
  IN  IF starts = {} THEN Undefined
      ELSE Some(SubSeq(s, Min(starts), DigitRunEnd(s, Min(starts))))

\* s.match(/word.*?(\d+)/): the first run of digits after the leftmost word
matchWordThenNumber(s, word) ==
  LET occ == { i \in 1..Len(s) : OccursAt(s, word, i) }
      ds  == IF occ = {} THEN {}
             ELSE { d \in (Min(occ) + Len(word))..Len(s) : IsDigit(s[d]) }
  IN  IF ds = {} THEN Undefined
      ELSE Some(SubSeq(s, Min(ds), DigitRunEnd(s, Min(ds))))

\* s.match(/word\s?(\d+)/): digits right after the word, one blank allowed
matchWordNumber(s, word) ==
  LET numAt(i) == LET p == i + Len(word)
                  IN  IF p <= Len(s) /\ IsDigit(s[p]) THEN p
                      ELSE IF p + 1 <= Len(s) /\ IsWs(s[p]) /\ IsDigit(s[p + 1])
                             THEN p + 1
                      ELSE 0
      occ == { i \in 1..Len(s) : OccursAt(s, word, i) /\ numAt(i) # 0 }
  IN  IF occ = {} THEN Undefined
      ELSE Some(SubSeq(s, numAt(Min(occ)), DigitRunEnd(s, numAt(Min(occ)))))

\* s.match(/word.*?([a-zA-Z\s]+)/i): the first maximal run of letters and
\* blanks that starts at or after the end of the leftmost word
matchWordThenClass(s, word) ==
  LET low == toLowerCase(s)
      occ == { i \in 1..Len(s) : OccursAt(low, word, i) }
      cs  == IF occ = {} THEN {}
             ELSE { c \in (Min(occ) + Len(word))..Len(s) : IsLetterOrWs(s[c]) }
  IN  IF cs = {} THEN Undefined
      ELSE Some(SubSeq(s, Min(cs), ClassRunEnd(s, Min(cs))))

\* the city alternation of the three locationPatterns
patternCities ==
  << <<"d","e","l","h","i">>, <<"m","u","m","b","a","i">>,
     <<"b","a","n","g","a","l","o","r","e">>, <<"c","h","e","n","n","a","i">>,
     <<"h","y","d","e","r","a","b","a","d">>, <<"p","u","n","e">>,
     <<"k","o","l","k","a","t","a">> >>

\* the alternative of patternCities matched at position j (flag i: the
\* comparison is made on the lower-cased text), as typed in s
cityAt(s, j) ==
  LET low == toLowerCase(s)
      a   == CHOOSE a \in 1..Len(patternCities) :
               /\ OccursAt(low, patternCities[a], j)
               /\ \A b \in 1..(a - 1) : ~OccursAt(low, patternCities[b], j)
  IN  SubSeq(s, j, j + Len(patternCities[a]) - 1)

\* no match
NoMatch == [length |-> 0, locality |-> <<>>, city |-> <<>>]

\* A lazy group [a-zA-Z\s]+? that starts at position from and is followed
\* by \s+ and a city at j: everything in from..j-1 is a letter or a blank,
\* the group takes at least one character and \s+ at least one blank.
ClassThenCity(s, from, j) ==
  /\ j - from >= 2
  /\ \A k \in from..(j - 1) : IsLetterOrWs(s[k])
  /\ IsWs(s[j - 1])
  /\ AltAt(toLowerCase(s), patternCities, j)

\* userMessage.match(/in\s+([a-zA-Z\s]+?)\s+(delhi|...)/i)
\* match[1].trim() is the text between "in" and the city without its
\* surrounding blanks, however \s+ and the lazy group share those blanks.
\* \s+ is greedy, so a group with a letter is tried before a group made of
\* a blank only.
matchInLocalityCity(s) ==
  LET low == toLowerCase(s)
      ok(i, j) == /\ OccursAt(low, <<"i","n">>, i)
                  /\ i + 2 <= Len(s) /\ IsWs(s[i + 2])
                  /\ ClassThenCity(s, i + 3, j)
      is == { i \in 1..Len(s) : \E j \in 1..Len(s) : ok(i, j) }
  IN  IF is = {} THEN NoMatch
      ELSE LET i  == Min(is)
               js == { j \in 1..Len(s) : ok(i, j) }
               jl == { j \in js : trim(SubSeq(s, i + 2, j - 1)) # <<>> }
               j  == IF jl # {} THEN Min(jl) ELSE Min(js)
           IN  [length |-> 3, locality |-> trim(SubSeq(s, i + 2, j - 1)),
                city |-> cityAt(s, j)]

\* userMessage.match(/([a-zA-Z\s]+?)\s+(delhi|...)/i)
matchLocalityCity(s) ==
  LET ok(i, j) == ClassThenCity(s, i, j)
      is == { i \in 1..Len(s) : \E j \in 1..Len(s) : ok(i, j) }
  IN  IF is = {} THEN NoMatch
      ELSE LET i == Min(is)
               j == Min({ j \in 1..Len(s) : ok(i, j) })
           IN  [length |-> 3, locality |-> trim(SubSeq(s, i, j - 1)),
                city |-> cityAt(s, j)]

\* userMessage.match(/in\s+(delhi|...)/i)
matchInCity(s) ==
  LET low == toLowerCase(s)
      ok(i, j) == /\ OccursAt(low, <<"i","n">>, i)
                  /\ j >= i + 3
                  /\ \A k \in (i + 2)..(j - 1) : IsWs(s[k])
                  /\ AltAt(low, patternCities, j)
      is == { i \in 1..Len(s) : \E j \in 1..Len(s) : ok(i, j) }
  IN  IF is = {} THEN NoMatch
      ELSE LET i == Min(is)
               j == CHOOSE j \in 1..Len(s) : ok(i, j)
           IN  [length |-> 2, locality |-> <<>>, city |-> cityAt(s, j)]

\* for (const pattern of locationPatterns) { match = ...; if (match) break }
\* the first of the three patterns that matches
matchLocation(s) ==
  IF matchInLocalityCity(s).length # 0 THEN matchInLocalityCity(s)
  ELSE IF matchLocalityCity(s).length # 0 THEN matchLocalityCity(s)
  ELSE matchInCity(s)

----------------------------------------------------------------------------
(* aiConversation.js: slot extraction                                      *)

\* memory.js:11  requirements: {}
EmptyRequirements ==
  [propertyType |-> Undefined, budget |-> Undefined, city |-> Undefined,
   locality |-> Undefined, bhk |-> Undefined, confirmed |-> Undefined,
   waitingForConfirmation |-> Undefined, conversationStarted |-> Undefined]

\* property type named by the lower-cased utterance
propertyTypeOf(lower) ==
  IF \/ includes(lower, <<"b","u","y">>)
     \/ includes(lower, <<"p","u","r","c","h","a","s","e">>)
     \/ includes(lower, <<"b","u","y","i","n","g">>)
    THEN Some(<<"b","u","y">>)
  ELSE IF \/ includes(lower, <<"r","e","n","t">>)
          \/ includes(lower, <<"r","e","n","t","a","l">>)
          \/ includes(lower, <<"r","e","n","t","i","n","g">>)
    THEN Some(<<"r","e","n","t">>)
  ELSE Undefined

\* pattern.source of the six budgetPatterns, in array order
budgetPatternSources ==
  << <<"(","\\","d","+",")","\\","s","?","(","l","a","k","h","|","l","a","k","h","s","|","l",")">>,
     <<"(","\\","d","+",")","\\","s","?","(","c","r","o","r","e","|","c","r","o","r","e","s","|","c","r",")">>,
     <<"(","\\","d","+",")","\\","s","?","k">>,
     <<"b","u","d","g","e","t",".","*","?","(","\\","d","+",")">>,
     <<"a","r","o","u","n","d","\\","s","?","(","\\","d","+",")">>,
     <<"(","\\","d","+",")","\\","s","?","(","t","h","o","u","s","a","n","d","|","k",")">> >>

\* lower.match(budgetPatterns[n]): group 1 or Undefined
budgetMatch(n, lower) ==
  CASE n = 1 -> matchNumberThen(lower, << <<"l","a","k","h">>, <<"l","a","k","h","s">>, <<"l">> >>)
    [] n = 2 -> matchNumberThen(lower, << <<"c","r","o","r","e">>, <<"c","r","o","r","e","s">>, <<"c","r">> >>)
    [] n = 3 -> matchNumberThen(lower, << <<"k">> >>)
    [] n = 4 -> matchWordThenNumber(lower, <<"b","u","d","g","e","t">>)
    [] n = 5 -> matchWordNumber(lower, <<"a","r","o","u","n","d">>)
    [] n = 6 -> matchNumberThen(lower, << <<"t","h","o","u","s","a","n","d">>, <<"k">> >>)

\* the budget string written for a match of pattern n
budgetText(n, digits) ==
  LET amount == numberToString(parseInt(digits))
      source == budgetPatternSources[n]
  IN  IF includes(source, <<"c","r","o","r","e">>)
        THEN amount \o <<" ","C","r","o","r","e">>
      ELSE IF includes(source, <<"l","a","k","h">>)
        THEN amount \o <<" ","L","a","k","h">>
      ELSE IF includes(source, <<"t","h","o","u","s","a","n","d">>) \/ includes(source, <<"k">>)
        THEN amount \o <<"K">>
      ELSE amount \o <<" ","L","a","k","h">>

\* for (const pattern of budgetPatterns) { ...; break }
budgetOf(lower) ==
  LET hit == { n \in 1..Len(budgetPatternSources) : budgetMatch(n, lower) # Undefined }
  IN  IF hit = {} THEN Undefined
      ELSE Some(budgetText(Min(hit), budgetMatch(Min(hit), lower)[1]))

\* the fallback scan: the first name of indianCities the utterance includes,
\* with its first letter in upper case
fallbackCityOf(lower) ==
  LET hit == { n \in 1..Len(indianCities) : includes(lower, indianCities[n]) }
  IN  IF hit = {} THEN Undefined
      ELSE LET city == indianCities[Min(hit)]
           IN  Some(<<UpperChar(city[1])>> \o Tail(city))

\* lower.match(/(\d+)\s?(bhk|bedroom)/)
bhkOf(lower) ==
  LET m == matchNumberThen(lower, << <<"b","h","k">>, <<"b","e","d","r","o","o","m">> >>)
  IN  IF m = Undefined THEN Undefined ELSE Some(m[1] \o <<"B","H","K">>)

\* for (const pattern of localityPatterns) { ...; break }
localityOf(userMessage) ==
  LET m1 == matchWordThenClass(userMessage, <<"l","o","c","a","l","i","t","y">>)
      m2 == matchWordThenClass(userMessage, <<"a","r","e","a">>)
      m3 == matchWordThenClass(userMessage, <<"n","e","a","r">>)
      m  == IF m1 # Undefined THEN m1 ELSE IF m2 # Undefined THEN m2 ELSE m3
  IN  IF m = Undefined THEN Undefined ELSE Some(trim(m[1]))

----------------------------------------------------------------------------
(* Inputs of the model                                                     *)

\* "Pune, buy 2BHK"
UtterCompleteBuy ==
  <<"P","u","n","e",","," ","b","u","y"," ","2","B","H","K">>
\* "Mumbai"
UtterMumbai ==
  <<"M","u","m","b","a","i">>
\* "yes"
UtterYes ==
  <<"y","e","s">>
\* "no, change it"
UtterNoChange ==
  <<"n","o",","," ","c","h","a","n","g","e"," ","i","t">>
\* "budget 50 lakh"
UtterBudget ==
  <<"b","u","d","g","e","t"," ","5","0"," ","l","a","k","h">>
\* "yes, around 50 lakh"
UtterYesBudget ==
  <<"y","e","s",","," ","a","r","o","u","n","d"," ","5","0"," ","l","a","k","h">>
\* "yes but wrong"
UtterYesButWrong ==
  <<"y","e","s"," ","b","u","t"," ","w","r","o","n","g">>
\* "I want to buy"
UtterWantToBuy ==
  <<"I"," ","w","a","n","t"," ","t","o"," ","b","u","y">>
\* "2BHK"
UtterBhk ==
  <<"2","B","H","K">>

\* "buy 2BHK in Wakad Pune"
UtterWakadPune ==
  <<"b","u","y"," ","2","B","H","K"," ","i","n"," ","W","a","k","a","d"," ","P","u","n","e">>
\* "near Baner"
UtterNearBaner ==
  <<"n","e","a","r"," ","B","a","n","e","r">>
\* "rent 3 bedroom in Delhi"
UtterRentDelhi ==
  <<"r","e","n","t"," ","3"," ","b","e","d","r","o","o","m"," ","i","n"," ","D","e","l","h","i">>

\* the utterances a chat turn of the protocol specification may carry
Utterances ==
  { UtterCompleteBuy, UtterMumbai, UtterYes, UtterNoChange, UtterBudget,
    UtterYesBudget, UtterYesButWrong }

\* the utterances of the end-to-end scenario
ScenarioUtterances == { UtterWantToBuy, UtterMumbai, UtterBhk, UtterYes }

\* the utterances of the chat turns that precede or follow a feedback
FeedbackUtterances == { UtterCompleteBuy, UtterYes }

\* the utterances of the extraction specification: they name a locality
\* with a city, a locality alone, a type and a configuration, a budget, a city
ExtractUtterances ==
  { UtterWakadPune, UtterNearBaner, UtterRentDelhi, UtterBudget, UtterMumbai }

\* the utterances of the history specification
HistoryUtterances == { UtterYes, UtterMumbai, UtterBhk }

\* utterances that name a place
UtterLajpatNagarDelhi == <<"L","o","o","k","i","n","g"," ","f","o","r"," ","2","B","H","K"," ","i","n"," ","L","a","j","p","a","t"," ","N","a","g","a","r"," ","D","e","l","h","i">>
UtterInMumbai == <<"i","n"," ","M","u","m","b","a","i">>
UtterFlatInMumbai == <<"2","B","H","K"," ","i","n"," ","M","u","m","b","a","i">>
UtterInAndheriMumbai == <<"r","e","n","t"," ","i","n"," ","A","n","d","h","e","r","i"," ","M","u","m","b","a","i">>

\* utterances that name a budget
UtterAround85Lakh == <<"a","r","o","u","n","d"," ","8","5"," ","l","a","k","h">>
Utter60kRent == <<"6","0","k"," ","r","e","n","t">>
UtterCroreAndLakh == <<"1"," ","c","r","o","r","e"," ","5","0"," ","l","a","k","h">>
UtterBudget40 == <<"b","u","d","g","e","t"," ","4","0">>

SlotUtterances ==
  { UtterLajpatNagarDelhi, UtterInMumbai, UtterFlatInMumbai, UtterInAndheriMumbai,
    UtterMumbai, UtterAround85Lakh, Utter60kRent, UtterCroreAndLakh, UtterBudget40 }

\* every text a request of the model may carry
AllUtterances ==
  Utterances \cup ScenarioUtterances \cup ExtractUtterances \cup SlotUtterances

\* replies the completion service may return: one with a search cue (the
\* sentence its system prompt asks for) and one without
AiReplySearch ==
  <<"L","e","t"," ","m","e"," ","s","e","a","r","c","h"," ","f","o","r"," ","p","r","o","p","e","r","t","i","e","s"," ","m","a","t","c","h","i","n","g"," ","y","o","u","r"," ","c","r","i","t","e","r","i","a",".">>
AiReplyPlain ==
  <<"G","o","t"," ","i","t",","," ","t","e","l","l"," ","m","e"," ","m","o","r","e",".">>
AiReplies == { AiReplySearch, AiReplyPlain }

\* "Looking now." (a cue that appears with a capital letter only)
AiReplyCapital ==
  <<"L","o","o","k","i","n","g"," ","n","o","w",".">>
\* replies of the completion service for the search trigger: with a cue,
\* with a capitalised cue, without a cue
TriggerReplies == { AiReplySearch, AiReplyCapital, AiReplyPlain }

\* result lists the search collaborator may return (ids of results): none,
\* or the three entries of its mock list
SearchResults == { <<>>, <<"r1", "r2", "r3">> }

\* session identifiers
SessionIds == { "s1", "s2" }

\* part_004:292  the callSid of a voice stream: the parameter of its URL, or
\* 'unknown'
CallSids == { "unknown", "CA1" }

\* the sockets the stream server accepts
SocketIds == { "w1", "w2" }

\* feedback values of POST /feedback
Like ==
  <<"l","i","k","e">>
Interested ==
  <<"i","n","t","e","r","e","s","t","e","d">>
Dislike ==
  <<"d","i","s","l","i","k","e">>
NotInterested ==
  <<"n","o","t","_","i","n","t","e","r","e","s","t","e","d">>
FeedbackValues == { Like, Interested, Dislike, NotInterested }

\* "too expensive"
ReasonExpensive ==
  <<"t","o","o"," ","e","x","p","e","n","s","i","v","e">>
\* "bad area, too small"
ReasonAreaSmall ==
  <<"b","a","d"," ","a","r","e","a",","," ","t","o","o"," ","s","m","a","l","l">>
\* the optional reason of a feedback
Reasons == { Undefined, Some(ReasonExpensive), Some(ReasonAreaSmall) }

\* server.js:175-181  the pieces of the feedback messages
LikedPrefix ==
  <<"I","'","m"," ","g","l","a","d"," ","y","o","u"," ","l","i","k","e","d"," ","t","h","a","t"," ","p","r","o","p","e","r","t","y","!"," ">>
LikedReason ==
  <<"I"," ","n","o","t","e","d"," ","t","h","a","t"," ","y","o","u"," ","l","i","k","e","d"," ","i","t"," ","b","e","c","a","u","s","e",":"," ">>
LikedSuffix ==
  <<"W","o","u","l","d"," ","y","o","u"," ","l","i","k","e"," ","m","e"," ","t","o"," ","f","i","n","d"," ","m","o","r","e"," ","s","i","m","i","l","a","r"," ","p","r","o","p","e","r","t","i","e","s","?">>
DislikedPrefix ==
  <<"I"," ","u","n","d","e","r","s","t","a","n","d"," ","t","h","a","t"," ","p","r","o","p","e","r","t","y"," ","w","a","s","n","'","t"," ","q","u","i","t","e"," ","r","i","g","h","t","."," ">>
DislikedReason ==
  <<"I"," ","n","o","t","e","d"," ","y","o","u","r"," ","c","o","n","c","e","r","n",":"," ">>
DislikedSuffix ==
  <<"L","e","t"," ","m","e"," ","s","e","a","r","c","h"," ","f","o","r"," ","b","e","t","t","e","r"," ","o","p","t","i","o","n","s"," ","t","h","a","t"," ","a","d","d","r","e","s","s"," ","y","o","u","r"," ","p","r","e","f","e","r","e","n","c","e","s",".">>
FeedbackOnProperty ==
  <<"F","e","e","d","b","a","c","k"," ","o","n"," ","p","r","o","p","e","r","t","y",":"," ">>

\* what the patterns of extractRequirements find in an utterance
scan(userMessage) ==
  LET lower == toLowerCase(userMessage)
  IN  [propertyType |-> propertyTypeOf(lower),
       budget       |-> budgetOf(lower),
       location     |-> matchLocation(userMessage),
       fallbackCity |-> fallbackCityOf(lower),
       bhk          |-> bhkOf(lower),
       locality     |-> localityOf(userMessage)]

\* scan of every utterance of the model (evaluated once)
Scanned == [u \in AllUtterances |-> scan(u)]

\* an extraction that takes the locality of a location match only once the
\* city is known
applyScan_LocalityAfterCity(found, cur) ==
  LET propertyType ==
        IF ~Truthy(cur.propertyType) /\ found.propertyType # Undefined
          THEN found.propertyType ELSE cur.propertyType
      budget ==
        IF ~Truthy(cur.budget) /\ found.budget # Undefined
          THEN found.budget ELSE cur.budget
      m == found.location
      locality1 ==
        IF m.length = 3 /\ ~Truthy(cur.locality) /\ Truthy(cur.city) /\ m.locality # <<>>
          THEN Some(m.locality) ELSE cur.locality
      city1 ==
        IF /\ m.length \in {2, 3}
           /\ ~Truthy(cur.city)
           /\ arrayIncludes(indianCities, toLowerCase(m.city))
          THEN Some(m.city) ELSE cur.city
      city ==
        IF ~Truthy(city1) /\ found.fallbackCity # Undefined
          THEN found.fallbackCity ELSE city1
      bhk ==
        IF ~Truthy(cur.bhk) /\ found.bhk # Undefined
          THEN found.bhk ELSE cur.bhk
      locality ==
        IF found.locality # Undefined THEN found.locality ELSE locality1
  IN  [cur EXCEPT !.conversationStarted = Some(TRUE),
                  !.propertyType = propertyType,
                  !.budget = budget,
                  !.city = city,
                  !.locality = locality,
                  !.bhk = bhk]

\* aiConversation.js:136-243  the updated copy of the requirements, from
\* what the patterns found in the utterance
applyScan(found, cur) ==
  LET propertyType ==
        IF ~Truthy(cur.propertyType) /\ found.propertyType # Undefined
          THEN found.propertyType ELSE cur.propertyType
      budget ==
        IF ~Truthy(cur.budget) /\ found.budget # Undefined
          THEN found.budget ELSE cur.budget
      m == found.location
      locality1 ==
        IF m.length = 3 /\ ~Truthy(cur.locality) /\ m.locality # <<>>
          THEN Some(m.locality) ELSE cur.locality
      city1 ==
        IF /\ m.length \in {2, 3}
           /\ ~Truthy(cur.city)
           /\ arrayIncludes(indianCities, toLowerCase(m.city))
          THEN Some(m.city) ELSE cur.city
      city ==
        IF ~Truthy(city1) /\ found.fallbackCity # Undefined
          THEN found.fallbackCity ELSE city1
      bhk ==
        IF ~Truthy(cur.bhk) /\ found.bhk # Undefined
          THEN found.bhk ELSE cur.bhk
      locality ==
        IF found.locality # Undefined THEN found.locality ELSE locality1
  IN  [cur EXCEPT !.conversationStarted = Some(TRUE),
                  !.propertyType = propertyType,
                  !.budget = budget,
                  !.city = city,
                  !.locality = locality,
                  !.bhk = bhk]

\* aiConversation.extractRequirements(userMessage, currentRequirements)
extractRequirements(userMessage, currentRequirements) ==
  applyScan(Scanned[userMessage], currentRequirements)

\* a completeness test that asks for the budget too
hasCompleteRequirements_WithBudget(requirements) ==
  /\ Truthy(requirements.propertyType)
  /\ Truthy(requirements.city)
  /\ Truthy(requirements.bhk)
  /\ Truthy(requirements.budget)

\* aiConversation.hasCompleteRequirements(requirements)
hasCompleteRequirements(requirements) ==
  /\ Truthy(requirements.propertyType)
  /\ Truthy(requirements.city)
  /\ Truthy(requirements.bhk)

\* a gate that forgets the confirmation
shouldSearchProperties_Unconfirmed(requirements) ==
  /\ Truthy(requirements.propertyType)
  /\ Truthy(requirements.city)
  /\ Truthy(requirements.bhk)

\* aiConversation.shouldSearchProperties(requirements)
shouldSearchProperties(requirements) ==
  /\ Truthy(requirements.propertyType)
  /\ Truthy(requirements.city)
  /\ Truthy(requirements.bhk)
  /\ requirements.confirmed = Some(TRUE)

\* a query that names the city before the locality
generateSearchQuery_CityFirst(requirements) ==
  LET part(o) == IF Truthy(o) THEN <<o[1]>> ELSE <<>>
      typePart ==
        IF requirements.propertyType = Some(<<"b","u","y">>) THEN << <<"b","u","y">> >>
        ELSE IF requirements.propertyType = Some(<<"r","e","n","t">>) THEN << <<"r","e","n","t">> >>
        ELSE <<>>
      queryParts == typePart \o part(requirements.bhk) \o part(requirements.city)
                      \o part(requirements.locality) \o part(requirements.budget)
  IN  joinWithSpace(queryParts)
        \o <<" ","s","i","t","e",":","h","o","u","s","i","n","g",".","c","o","m">>

\* aiConversation.generateSearchQuery(requirements)
generateSearchQuery(requirements) ==
  LET part(o) == IF Truthy(o) THEN <<o[1]>> ELSE <<>>
      typePart ==
        IF requirements.propertyType = Some(<<"b","u","y">>) THEN << <<"b","u","y">> >>
        ELSE IF requirements.propertyType = Some(<<"r","e","n","t">>) THEN << <<"r","e","n","t">> >>
        ELSE <<>>
      queryParts == typePart \o part(requirements.bhk) \o part(requirements.locality)
                      \o part(requirements.city) \o part(requirements.budget)
  IN  joinWithSpace(queryParts)
        \o <<" ","s","i","t","e",":","h","o","u","s","i","n","g",".","c","o","m">>

\* aiConversation.generateRequirementsSummary(requirements)
generateRequirementsSummary(requirements) ==
  LET r == requirements
      p1 == IF Truthy(r.propertyType)
              THEN << IF r.propertyType[1] = <<"b","u","y">>
                        THEN <<"b","u","y","i","n","g">>
                        ELSE <<"r","e","n","t","i","n","g">> >>
              ELSE <<>>
      p2 == IF Truthy(r.bhk) THEN << <<"a"," ">> \o r.bhk[1] >> ELSE <<>>
      p3 == IF Truthy(r.locality) /\ Truthy(r.city)
              THEN << <<"i","n"," ">> \o r.locality[1] \o <<","," ">> \o r.city[1] >>
            ELSE IF Truthy(r.city) THEN << <<"i","n"," ">> \o r.city[1] >>
            ELSE <<>>
      p4 == IF Truthy(r.budget)
              THEN << <<"w","i","t","h"," ","b","u","d","g","e","t"," ">> \o r.budget[1] >>
              ELSE <<>>
  IN  joinWithSpace(p1 \o p2 \o p3 \o p4)

\* the affirmative cue of server.js:61-62 and aiConversation.js:81-82
hasAffirmativeCue(lower) ==
  \/ includes(lower, <<"y","e","s">>)
  \/ includes(lower, <<"o","k">>)
  \/ includes(lower, <<"s","u","r","e">>)
  \/ includes(lower, <<"p","r","o","c","e","e","d">>)
  \/ includes(lower, <<"s","e","a","r","c","h">>)
  \/ includes(lower, <<"f","i","n","d">>)

\* the revision cue of server.js:69-70 and aiConversation.js:88-89
hasRevisionCue(lower) ==
  \/ includes(lower, <<"n","o">>)
  \/ includes(lower, <<"c","h","a","n","g","e">>)
  \/ includes(lower, <<"m","o","d","i","f","y">>)
  \/ includes(lower, <<"d","i","f","f","e","r","e","n","t">>)
  \/ includes(lower, <<"w","r","o","n","g">>)

\* aiConversation.getFallbackResponse(userMessage, requirements)
getFallbackResponse(userMessage, requirements) ==
  LET lower == toLowerCase(userMessage)
  IN  IF ~IsTrue(requirements.conversationStarted) THEN ReplyIntro
      ELSE IF IsTrue(requirements.waitingForConfirmation) /\ hasAffirmativeCue(lower)
        THEN ReplySearching
      ELSE IF IsTrue(requirements.waitingForConfirmation) /\ hasRevisionCue(lower)
        THEN ReplyModify
      ELSE IF ~Truthy(requirements.propertyType)
        THEN IF \/ includes(lower, <<"b","u","y">>)
                \/ includes(lower, <<"p","u","r","c","h","a","s","e">>)
               THEN ReplyBuy
             ELSE IF \/ includes(lower, <<"r","e","n","t">>)
                     \/ includes(lower, <<"r","e","n","t","a","l">>)
               THEN ReplyRent
             ELSE ReplyAskType
      ELSE IF ~Truthy(requirements.city) THEN ReplyAskCity
      ELSE IF ~Truthy(requirements.bhk) THEN ReplyAskBhk
      ELSE IF ~Truthy(requirements.budget) THEN ReplyAskBudget
      ELSE IF /\ hasCompleteRequirements(requirements)
              /\ ~IsTrue(requirements.confirmed)
              /\ ~IsTrue(requirements.waitingForConfirmation)
        THEN ConfirmPrefix \o generateRequirementsSummary(requirements) \o ConfirmSuffix
      ELSE ReplyGeneric

\* a confirmation that leaves waitingForConfirmation as it was
confirmStep_KeepWaiting(lower, r) ==
  IF IsTrue(r.waitingForConfirmation) /\ hasAffirmativeCue(lower)
    THEN [r EXCEPT !.confirmed = Some(TRUE)]
    ELSE r

\* server.js:60-65  the user confirms: an affirmative cue while waiting
confirmStep(lower, r) ==
  IF IsTrue(r.waitingForConfirmation) /\ hasAffirmativeCue(lower)
    THEN [r EXCEPT !.confirmed = Some(TRUE),
                   !.waitingForConfirmation = Some(FALSE)]
    ELSE r

\* server.js:68-74  the user wants to modify: a revision cue while waiting
modifyStep(lower, r) ==
  IF IsTrue(r.waitingForConfirmation) /\ hasRevisionCue(lower)
    THEN [r EXCEPT !.confirmed = Some(FALSE),
                   !.waitingForConfirmation = Some(FALSE)]
    ELSE r

\* a completeness step that asks again for requirements already confirmed
completeStep_AsksAgain(r) ==
  IF hasCompleteRequirements(r) /\ ~IsTrue(r.waitingForConfirmation)
    THEN [r EXCEPT !.waitingForConfirmation = Some(TRUE)]
    ELSE r

\* server.js:77-81  complete but not confirmed: wait for the confirmation
completeStep(r) ==
  IF /\ hasCompleteRequirements(r)
     /\ ~IsTrue(r.confirmed)
     /\ ~IsTrue(r.waitingForConfirmation)
    THEN [r EXCEPT !.waitingForConfirmation = Some(TRUE)]
    ELSE r

\* server.js:85-90  JSON.stringify of a slot differs between the
\* requirements read before extraction and the updated ones
hasNewRequirements(currentRequirements, updatedRequirements) ==
  \/ currentRequirements.propertyType # updatedRequirements.propertyType
  \/ currentRequirements.city # updatedRequirements.city
  \/ currentRequirements.bhk # updatedRequirements.bhk
  \/ currentRequirements.budget # updatedRequirements.budget
  \/ currentRequirements.locality # updatedRequirements.locality

\* server.js:84-101  new requirements while waiting: reset, and wait again
\* if the requirements are complete
resetStep(currentRequirements, r) ==
  IF IsTrue(r.waitingForConfirmation) /\ hasNewRequirements(currentRequirements, r)
    THEN [r EXCEPT !.confirmed = Some(FALSE),
                   !.waitingForConfirmation = Some(hasCompleteRequirements(r))]
    ELSE r

\* the revision rule tried before the affirmative rule
confirmRequirements_RevisionFirst(text, currentRequirements) ==
  resetStep(currentRequirements,
    completeStep(
      confirmStep(toLowerCase(text),
        modifyStep(toLowerCase(text),
          extractRequirements(text, currentRequirements)))))

\* the completeness check made before the revision rule, not after it
confirmRequirements_NoRecheck(text, currentRequirements) ==
  resetStep(currentRequirements,
    modifyStep(toLowerCase(text),
      completeStep(
        confirmStep(toLowerCase(text),
          extractRequirements(text, currentRequirements)))))

\* server.js:52-101  the requirements a chat turn persists, from the
\* utterance and the requirements read before extraction
confirmRequirements(text, currentRequirements) ==
  resetStep(currentRequirements,
    completeStep(
      modifyStep(toLowerCase(text),
        confirmStep(toLowerCase(text),
          extractRequirements(text, currentRequirements)))))

\* a trigger that knows the cue "search" only
searchKeywords_SearchOnly(aiResponse) ==
  includes(toLowerCase(aiResponse), <<"s","e","a","r","c","h">>)

\* server.js:119-122  the reply contains a search-intent cue
searchKeywords(aiResponse) ==
  LET lower == toLowerCase(aiResponse)
  IN  \/ includes(lower, <<"s","e","a","r","c","h">>)
      \/ includes(lower, <<"f","i","n","d">>)
      \/ includes(lower, <<"l","o","o","k","i","n","g">>)
      \/ includes(lower, <<"p","r","o","p","e","r","t","i","e","s">>)

----------------------------------------------------------------------------
(* memory.js: the in-memory session store                                  *)

VARIABLES
  store,   \* memory.js:5  the Map of sessions: per id, Undefined or Some(session)
  trace,   \* the requests handled so far, each with its inputs and outputs
  inflight, \* server.js:37-155  per id, the locals of the /chat turn suspended at an await
  redis,   \* googleSearch.js:82-101  the database: per key, Undefined or Some(session)
  pending, \* googleSearch.js:151-218  the store calls whose GET was sent and whose SET was not
  connections, \* part_004:261  the Map of voice streams: per callSid, Undefined or Some(connection)
  sockets, \* part_004:274-277  per socket of the stream server, Undefined or Some(what its handlers hold)
  timers   \* part_004:459-462  the endCall callbacks scheduled and not yet run

vars == <<store, trace, inflight, redis, pending, connections, sockets, timers>>

\* memory.js:10-19  the session returned for an id without record
\* (callInfo, propertyInfo, customerInfo: <<>> for null or undefined, <<o>>
\* for an object o)
DefaultSession ==
  [requirements |-> EmptyRequirements,
   conversationHistory |-> <<>>,
   currentState |-> "introduction",
   propertySearchHistory |-> <<>>,
   userFeedback |-> <<>>,
   callInfo |-> <<>>,
   propertyInfo |-> <<>>,
   customerInfo |-> <<>>]

\* memory.js:47-50  the number of messages kept per session
HistoryCap == 10

\* memory.get(sessionId)
get(st, sessionId) ==
  IF st[sessionId] = Undefined THEN DefaultSession ELSE st[sessionId][1]

\* a store with a single slot: the record is written under every id
set_SingleSlot(st, sessionId, session) == [k \in DOMAIN st |-> Some(session)]

\* store.set(sessionId, session)
set(st, sessionId, session) == [st EXCEPT ![sessionId] = Some(session)]

\* { ...stored, ...requirements }: a property of requirements that is set
\* overrides the stored one (no property is ever assigned undefined)
spread(stored, requirements) ==
  [f \in DOMAIN stored |->
     IF requirements[f] # Undefined THEN requirements[f] ELSE stored[f]]

\* memory.updateRequirements(sessionId, requirements)
updateRequirements(st, sessionId, requirements) ==
  LET session == get(st, sessionId)
  IN  set(st, sessionId,
          [session EXCEPT !.requirements = spread(@, requirements)])

\* a slice that keeps the oldest n entries
sliceFirst(seq, n) ==
  IF Len(seq) <= n THEN seq ELSE SubSeq(seq, 1, n)

\* Array.prototype.slice(-n)
sliceLast(seq, n) ==
  IF Len(seq) <= n THEN seq ELSE SubSeq(seq, Len(seq) - n + 1, Len(seq))

\* memory.addToConversationHistory(sessionId, role, message)
addToConversationHistory(st, sessionId, role, message) ==
  LET session == get(st, sessionId)
      pushed  == Append(session.conversationHistory,
                        [role |-> role, content |-> message])
      kept    == IF Len(pushed) > HistoryCap THEN sliceLast(pushed, HistoryCap)
                 ELSE pushed
  IN  set(st, sessionId, [session EXCEPT !.conversationHistory = kept])

\* a log that keeps the latest search only
addPropertySearchResult_Replace(st, sessionId, searchQuery, results) ==
  LET session == get(st, sessionId)
  IN  set(st, sessionId,
          [session EXCEPT !.propertySearchHistory =
             << [query |-> searchQuery, results |-> results] >>])

\* memory.addPropertySearchResult(sessionId, searchQuery, results)
addPropertySearchResult(st, sessionId, searchQuery, results) ==
  LET session == get(st, sessionId)
  IN  set(st, sessionId,
          [session EXCEPT !.propertySearchHistory =
             Append(@, [query |-> searchQuery, results |-> results])])

\* memory.addUserFeedback(sessionId, propertyId, feedback, reason)
addUserFeedback(st, sessionId, propertyId, feedback, reason) ==
  LET session == get(st, sessionId)
  IN  set(st, sessionId,
          [session EXCEPT !.userFeedback =
             Append(@, [propertyId |-> propertyId, feedback |-> feedback,
                        reason |-> reason])])

\* memory.updateConversationState(sessionId, state)
updateConversationState(st, sessionId, state) ==
  set(st, sessionId, [get(st, sessionId) EXCEPT !.currentState = state])

\* memory.js:87-106  setCallInfo, setPropertyInfo, setCustomerInfo
setCallInfo(st, sessionId, callInfo) ==
  set(st, sessionId, [get(st, sessionId) EXCEPT !.callInfo = callInfo])
setPropertyInfo(st, sessionId, propertyInfo) ==
  set(st, sessionId, [get(st, sessionId) EXCEPT !.propertyInfo = propertyInfo])
setCustomerInfo(st, sessionId, customerInfo) ==
  set(st, sessionId, [get(st, sessionId) EXCEPT !.customerInfo = customerInfo])

\* memory.clear(sessionId)
clear(st, sessionId) == [st EXCEPT ![sessionId] = Undefined]

\* memory.getConversationHistory / getRequirements / getUserFeedback
getConversationHistory(st, sessionId) == get(st, sessionId).conversationHistory
getRequirements(st, sessionId) == get(st, sessionId).requirements
getUserFeedback(st, sessionId) == get(st, sessionId).userFeedback

----------------------------------------------------------------------------
(* server.js: the request handlers                                         *)

\* the record of a handled request: what came in and what the handler did.
\* searched is the query passed to googleSearch.searchHousingLinks, if the
\* handler called it.
Handled(endpoint, sessionId, text, currentRequirements, requirements, persisted, strategy, replyText, searched, links) ==
  [endpoint |-> endpoint, sessionId |-> sessionId, text |-> text,
   currentRequirements |-> currentRequirements,
   requirements |-> requirements, persisted |-> persisted,
   strategy |-> strategy, replyText |-> replyText,
   searched |-> searched, links |-> links]

\* aiConversation.generateResponse: the completion service answers
\* (strategy "ai", any reply), or it is not configured or fails and the
\* rule-based reply is returned (strategy "rule")
generateResponse(strategy, aiReply, userMessage, requirements) ==
  IF strategy = "ai" THEN aiReply
  ELSE getFallbackResponse(userMessage, requirements)

\* a trigger that searches on the gate alone, whatever the reply says
chatSearch_IgnoreCues(st, sessionId, text, currentRequirements, updatedRequirements, persisted, strategy, aiResponse, results) ==
  IF shouldSearchProperties(updatedRequirements)
    THEN [store |-> updateConversationState(
                      addPropertySearchResult(st, sessionId,
                        generateSearchQuery(updatedRequirements), results),
                      sessionId, "presenting_results"),
          handled |-> Handled("chat", sessionId, text, currentRequirements,
                        updatedRequirements, persisted, strategy, aiResponse,
                        Some(generateSearchQuery(updatedRequirements)), results)]
    ELSE [store |-> st,
          handled |-> Handled("chat", sessionId, text, currentRequirements,
                        updatedRequirements, persisted, strategy, aiResponse,
                        Undefined, <<>>)]

\* server.js:114-134  the search trigger of POST /chat: the store and the
\* record of the turn, after the reply has been added to the history (st).
\* results is what googleSearch.searchHousingLinks returns when called.
chatSearch(st, sessionId, text, currentRequirements, updatedRequirements, persisted, strategy, aiResponse, results) ==
  IF shouldSearchProperties(updatedRequirements) /\ searchKeywords(aiResponse)
    THEN [store |-> updateConversationState(
                      addPropertySearchResult(st, sessionId,
                        generateSearchQuery(updatedRequirements), results),
                      sessionId, "presenting_results"),
          handled |-> Handled("chat", sessionId, text, currentRequirements,
                        updatedRequirements, persisted, strategy, aiResponse,
                        Some(generateSearchQuery(updatedRequirements)), results)]
    ELSE [store |-> st,
          handled |-> Handled("chat", sessionId, text, currentRequirements,
                        updatedRequirements, persisted, strategy, aiResponse,
                        Undefined, <<>>)]

\* server.js:105-112  the reply is generated and added to the history
\* (st: the store after the requirements have been persisted)
chatRespond(st, sessionId, text, currentRequirements, updatedRequirements, strategy, aiResponse, results) ==
  chatSearch(addToConversationHistory(st, sessionId, "assistant", aiResponse),
             sessionId, text, currentRequirements, updatedRequirements,
             getRequirements(st, sessionId), strategy, aiResponse, results)

\* server.js:103-107  the updated requirements are persisted
\* (st: the store after the utterance has been added to the history)
chatPersist(st, sessionId, text, currentRequirements, updatedRequirements, strategy, aiReply, results) ==
  chatRespond(updateRequirements(st, sessionId, updatedRequirements),
              sessionId, text, currentRequirements, updatedRequirements, strategy,
              generateResponse(strategy, aiReply, text, updatedRequirements),
              results)

\* server.js:52-101  the requirements are read, extracted and gated
\* (st: the store after the utterance has been added to the history)
chatExtract(st, sessionId, text, strategy, aiReply, results) ==
  chatPersist(st, sessionId, text, getRequirements(st, sessionId),
              confirmRequirements(text, getRequirements(st, sessionId)),
              strategy, aiReply, results)

\* server.js:37-155  a turn of POST /chat with a non-empty sessionId and
\* text, run to completion on the store st: the store it leaves and the
\* record of the turn
chatTurn(st, sessionId, text, strategy, aiReply, results) ==
  chatExtract(addToConversationHistory(st, sessionId, "user", text),
              sessionId, text, strategy, aiReply, results)

\* the handler has run: its effect on the store, and its record
Done(outcome) ==
  /\ store' = outcome.store
  /\ trace' = Append(trace, outcome.handled)
  /\ UNCHANGED <<inflight, redis, pending, connections, sockets, timers>>

\* POST /chat
Chat(sessionId, text, strategy, aiReply, results) ==
  Done(chatTurn(store, sessionId, text, strategy, aiReply, results))

\* feedback === 'dislike' || feedback === 'not_interested'
isNegative(feedback) == feedback = Dislike \/ feedback = NotInterested

\* a refinement that reads the reasons of every feedback, liked or not
refineSearchBasedOnFeedback_AllReasons(requirements, userFeedback) ==
  LET negativeReasons ==
        { userFeedback[i].reason[1] :
            i \in { k \in 1..Len(userFeedback) :
                      Truthy(userFeedback[k].reason) } }
      some(w1, w2) ==
        \E r \in negativeReasons :
          includes(toLowerCase(r), w1) \/ includes(toLowerCase(r), w2)
  IN  generateSearchQuery(requirements)
        \o (IF some(<<"p","r","i","c","e">>, <<"e","x","p","e","n","s","i","v","e">>)
              THEN <<" ","a","f","f","o","r","d","a","b","l","e"," ","b","u","d","g","e","t">>
              ELSE <<>>)
        \o (IF some(<<"l","o","c","a","t","i","o","n">>, <<"a","r","e","a">>)
              THEN <<" ","p","r","i","m","e"," ","l","o","c","a","t","i","o","n"," ","c","e","n","t","r","a","l">>
              ELSE <<>>)
        \o (IF some(<<"s","m","a","l","l">>, <<"s","p","a","c","e">>)
              THEN <<" ","s","p","a","c","i","o","u","s"," ","l","a","r","g","e">>
              ELSE <<>>)

\* server.js:209-230  refineSearchBasedOnFeedback(requirements, userFeedback)
refineSearchBasedOnFeedback(requirements, userFeedback) ==
  LET negativeReasons ==
        { userFeedback[i].reason[1] :
            i \in { k \in 1..Len(userFeedback) :
                      /\ isNegative(userFeedback[k].feedback)
                      /\ Truthy(userFeedback[k].reason) } }
      some(w1, w2) ==
        \E r \in negativeReasons :
          includes(toLowerCase(r), w1) \/ includes(toLowerCase(r), w2)
  IN  generateSearchQuery(requirements)
        \o (IF some(<<"p","r","i","c","e">>, <<"e","x","p","e","n","s","i","v","e">>)
              THEN <<" ","a","f","f","o","r","d","a","b","l","e"," ","b","u","d","g","e","t">>
              ELSE <<>>)
        \o (IF some(<<"l","o","c","a","t","i","o","n">>, <<"a","r","e","a">>)
              THEN <<" ","p","r","i","m","e"," ","l","o","c","a","t","i","o","n"," ","c","e","n","t","r","a","l">>
              ELSE <<>>)
        \o (IF some(<<"s","m","a","l","l">>, <<"s","p","a","c","e">>)
              THEN <<" ","s","p","a","c","i","o","u","s"," ","l","a","r","g","e">>
              ELSE <<>>)

\* server.js:173-178  the reply to a feedback
feedbackMessage(feedback, reason) ==
  IF feedback = Like \/ feedback = Interested
    THEN LikedPrefix
           \o (IF Truthy(reason) THEN LikedReason \o reason[1] \o <<"."," ">> ELSE <<>>)
           \o LikedSuffix
    ELSE DislikedPrefix
           \o (IF Truthy(reason) THEN DislikedReason \o reason[1] \o <<"."," ">> ELSE <<>>)
           \o DislikedSuffix

\* server.js:181  the user entry a feedback adds to the history
feedbackEntry(feedback, reason) ==
  FeedbackOnProperty \o feedback \o <<" ">>
    \o (IF Truthy(reason) THEN <<"-"," ">> \o reason[1] ELSE <<>>)

\* server.js:184-200  negative feedback: the refined search
\* (st: the store after the two history entries have been added;
\* requirements and userFeedback: as read after the feedback was stored)
feedbackSearch(st, sessionId, feedback, reason, requirements, userFeedback, results) ==
  IF isNegative(feedback)
    THEN [store |-> addPropertySearchResult(st, sessionId,
                      refineSearchBasedOnFeedback(requirements, userFeedback),
                      results),
          handled |-> Handled("feedback", sessionId, feedback, requirements,
                        requirements, requirements, "none",
                        feedbackMessage(feedback, reason),
                        Some(refineSearchBasedOnFeedback(requirements, userFeedback)),
                        results)]
    ELSE [store |-> st,
          handled |-> Handled("feedback", sessionId, feedback, requirements,
                        requirements, requirements, "none",
                        feedbackMessage(feedback, reason), Undefined, <<>>)]

\* server.js:168-182  the feedback has been stored (st): the session is
\* read and the two messages are added to the history
feedbackRespond(st, sessionId, feedback, reason, results) ==
  feedbackSearch(
    addToConversationHistory(
      addToConversationHistory(st, sessionId, "user", feedbackEntry(feedback, reason)),
      sessionId, "assistant", feedbackMessage(feedback, reason)),
    sessionId, feedback, reason,
    getRequirements(st, sessionId), getUserFeedback(st, sessionId), results)

\* server.js:158-206  POST /feedback with sessionId, propertyId and
\* feedback given, run to completion on the store st
feedbackTurn(st, sessionId, propertyId, feedback, reason, results) ==
  feedbackRespond(addUserFeedback(st, sessionId, propertyId, feedback, reason),
                  sessionId, feedback, reason, results)

\* POST /feedback
Feedback(sessionId, propertyId, feedback, reason, results) ==
  Done(feedbackTurn(store, sessionId, propertyId, feedback, reason, results))

\* DELETE /session/:id (server.js:322-326)
ClearSession(sessionId) ==
  Done([store |-> clear(store, sessionId),
        handled |-> Handled("clear", sessionId, <<>>, EmptyRequirements,
                      EmptyRequirements, EmptyRequirements, "none", <<>>,
                      Undefined, <<>>)])

\* requirements records the gate may be given: every combination of set and
\* unset slots (a locality may also be the empty string) and of the values
\* of the two flags
GateInputs ==
  [propertyType : {Undefined, Some(<<"b","u","y">>), Some(<<"r","e","n","t">>)},
   budget : {Undefined, Some(<<"5","0"," ","L","a","k","h">>)},
   city : {Undefined, Some(<<"P","u","n","e">>)},
   locality : {Undefined, Some(<<>>), Some(<<"W","a","k","a","d">>)},
   bhk : {Undefined, Some(<<"2","B","H","K">>)},
   confirmed : {Undefined, Some(TRUE), Some(FALSE)},
   waitingForConfirmation : {Undefined, Some(TRUE), Some(FALSE)},
   conversationStarted : {Some(TRUE)}]

\* the record of an evaluation of the gate: the truthiness of what
\* hasCompleteRequirements and shouldSearchProperties return for requirements
Evaluated(requirements) ==
  [endpoint |-> "gate", requirements |-> requirements,
   complete |-> hasCompleteRequirements(requirements),
   search |-> shouldSearchProperties(requirements)]

\* aiConversation.hasCompleteRequirements and shouldSearchProperties are
\* called with a requirements record; they read it and change nothing
Gate(requirements) ==
  /\ trace' = Append(trace, Evaluated(requirements))
  /\ UNCHANGED <<store, inflight, redis, pending, connections, sockets, timers>>

----------------------------------------------------------------------------
(* Specifications                                                          *)

\* no session has a record
Init ==
  /\ store = [id \in SessionIds |-> Undefined]
  /\ trace = <<>>
  /\ inflight = [id \in SessionIds |-> Undefined]
  /\ redis = [id \in SessionIds |-> Undefined]
  /\ pending = <<>>
  /\ connections = [callSid \in CallSids |-> Undefined]
  /\ sockets = [ws \in SocketIds |-> Undefined]
  /\ timers = <<>>

\* a chat turn answered by the rule-based responder, as one of at most
\* bound requests
ChatRule(sessionId, texts, bound) ==
  /\ Len(trace) < bound
  /\ \E text \in texts, results \in SearchResults :
       Chat(sessionId, text, "rule", <<>>, results)

\* a chat turn answered by the completion service
ChatAi(sessionId, texts, bound) ==
  /\ Len(trace) < bound
  /\ \E text \in texts, aiReply \in AiReplies, results \in SearchResults :
       Chat(sessionId, text, "ai", aiReply, results)

\* a chat turn answered by the completion service with one of the replies
\* of the search-trigger specification
ChatAiTrigger(sessionId, texts, bound) ==
  /\ Len(trace) < bound
  /\ \E text \in texts, aiReply \in TriggerReplies, results \in SearchResults :
       Chat(sessionId, text, "ai", aiReply, results)

\* a feedback submission
SubmitFeedback(sessionId, bound) ==
  /\ Len(trace) < bound
  /\ \E feedback \in FeedbackValues, reason \in Reasons, results \in SearchResults :
       Feedback(sessionId, "p1", feedback, reason, results)

\* a session is cleared
Clear(sessionId, bound) ==
  /\ Len(trace) < bound
  /\ ClearSession(sessionId)

\* the gate is evaluated on a requirements record
EvaluateGate(bound) ==
  /\ Len(trace) < bound
  /\ \E requirements \in GateInputs : Gate(requirements)

\* the confirmation protocol: chat turns and clears of one session
Next ==
  \/ ChatRule("s1", Utterances, MaxOps)
  \/ ChatAi("s1", Utterances, MaxOps)
  \/ Clear("s1", MaxOps)

Spec == Init /\ [][Next]_vars

\* the end-to-end scenario: chat turns of a fresh session that carry the
\* utterances of the scenario, in any order
NextScenario ==
  \/ ChatRule("s1", ScenarioUtterances, MaxScenarioTurns)
  \/ ChatAi("s1", ScenarioUtterances, MaxScenarioTurns)

SpecScenario == Init /\ [][NextScenario]_vars

\* chat turns and feedback submissions of one session
NextFeedback ==
  \/ ChatRule("s1", FeedbackUtterances, MaxFeedbackOps)
  \/ SubmitFeedback("s1", MaxFeedbackOps)

SpecFeedback == Init /\ [][NextFeedback]_vars

\* the search trigger: chat turns of one session with rule-based replies and
\* with replies of the completion service that carry a cue or not
NextTrigger ==
  \/ ChatRule("s1", FeedbackUtterances, MaxTriggerTurns)
  \/ ChatAiTrigger("s1", FeedbackUtterances, MaxTriggerTurns)

SpecTrigger == Init /\ [][NextTrigger]_vars

\* the life of a session record: chat turns, feedback submissions and clears
\* of one session
NextLifecycle ==
  \/ ChatRule("s1", FeedbackUtterances, MaxLifecycleOps)
  \/ SubmitFeedback("s1", MaxLifecycleOps)
  \/ Clear("s1", MaxLifecycleOps)

SpecLifecycle == Init /\ [][NextLifecycle]_vars

\* slot extraction: chat turns of one session whose utterances fill, and try
\* to fill again, every slot
NextExtract ==
  \/ ChatRule("s1", ExtractUtterances, MaxExtractTurns)
  \/ ChatAi("s1", ExtractUtterances, MaxExtractTurns)

SpecExtract == Init /\ [][NextExtract]_vars

\* the conversation history: chat turns of one session, more than the
\* history keeps
NextHistory ==
  ChatRule("s1", HistoryUtterances, MaxHistoryTurns)

SpecHistory == Init /\ [][NextHistory]_vars

\* the two predicates of the gate, evaluated on requirements records
NextGate ==
  EvaluateGate(MaxGateCalls)

SpecGate == Init /\ [][NextGate]_vars

----------------------------------------------------------------------------
(* server.js: POST /chat step by step, suspended at its awaits             *)

\* the locals of a /chat turn suspended at an await; phase tells which
\* ("reply": server.js:107, "search": server.js:130), before is the record
\* the session had when the turn began
Suspended(phase, text, currentRequirements, updatedRequirements, persisted, strategy, aiResponse, before) ==
  [phase |-> phase, text |-> text,
   currentRequirements |-> currentRequirements,
   updatedRequirements |-> updatedRequirements, persisted |-> persisted,
   strategy |-> strategy, aiResponse |-> aiResponse, before |-> before]

\* server.js:103-107  the updated requirements are persisted, and the
\* handler awaits aiConversation.generateResponse
\* (st: the store after the requirements have been persisted)
chatAwaitReply(st, sessionId, text, currentRequirements, updatedRequirements, before) ==
  [store |-> st,
   locals |-> Suspended("reply", text, currentRequirements, updatedRequirements,
                getRequirements(st, sessionId), "none", <<>>, before)]

\* server.js:52-103  the requirements are read, extracted, gated and persisted
\* (st: the store after the utterance has been added to the history)
chatBeginExtract(st, sessionId, text, currentRequirements, before) ==
  chatAwaitReply(updateRequirements(st, sessionId, confirmRequirements(text, currentRequirements)),
                 sessionId, text, currentRequirements,
                 confirmRequirements(text, currentRequirements), before)

\* server.js:37-107  POST /chat from the request to its first await
chatBegin(st, sessionId, text) ==
  chatBeginExtract(addToConversationHistory(st, sessionId, "user", text),
                   sessionId, text,
                   getRequirements(addToConversationHistory(st, sessionId, "user", text), sessionId),
                   st[sessionId])

\* server.js:114-130  the search trigger: the handler awaits
\* googleSearch.searchHousingLinks, or it has finished with the store
\* (st: the store after the reply has been added to the history)
chatAwaitSearch(st, sessionId, locals, strategy, aiResponse) ==
  IF shouldSearchProperties(locals.updatedRequirements) /\ searchKeywords(aiResponse)
    THEN [store |-> st,
          suspended |-> Some([locals EXCEPT !.phase = "search",
                                            !.strategy = strategy,
                                            !.aiResponse = aiResponse]),
          handled |-> Undefined]
    ELSE [store |-> st,
          suspended |-> Undefined,
          handled |-> Some(Handled("chat", sessionId, locals.text,
                             locals.currentRequirements, locals.updatedRequirements,
                             locals.persisted, strategy, aiResponse, Undefined, <<>>))]

\* server.js:107-130  POST /chat from the reply of generateResponse to the
\* next await
chatResume(st, sessionId, locals, aiResponse, strategy) ==
  chatAwaitSearch(addToConversationHistory(st, sessionId, "assistant", aiResponse),
                  sessionId, locals, strategy, aiResponse)

\* server.js:130-147  POST /chat from the results of searchHousingLinks to
\* the response
chatFinishSearch(st, sessionId, locals, results) ==
  [store |-> updateConversationState(
               addPropertySearchResult(st, sessionId,
                 generateSearchQuery(locals.updatedRequirements), results),
               sessionId, "presenting_results"),
   handled |-> Handled("chat", sessionId, locals.text, locals.currentRequirements,
                 locals.updatedRequirements, locals.persisted, locals.strategy,
                 locals.aiResponse,
                 Some(generateSearchQuery(locals.updatedRequirements)), results)]

\* the sessions with a /chat turn in flight
InFlight == { id \in SessionIds : inflight[id] # Undefined }

\* a /chat request of a session without a turn in flight arrives and runs to
\* its first await, as one of at most bound turns
BeginChat(sessionId, texts, bound) ==
  /\ inflight[sessionId] = Undefined
  /\ Len(trace) + Cardinality(InFlight) < bound
  /\ \E text \in texts :
       /\ store' = chatBegin(store, sessionId, text).store
       /\ inflight' = [inflight EXCEPT ![sessionId] =
                         Some(chatBegin(store, sessionId, text).locals)]
  /\ UNCHANGED <<trace, redis, pending, connections, sockets, timers>>

\* the reply has been produced: the turn of the session goes on
Resumed(sessionId, outcome) ==
  /\ store' = outcome.store
  /\ inflight' = [inflight EXCEPT ![sessionId] = outcome.suspended]
  /\ trace' = trace \o outcome.handled
  /\ UNCHANGED <<redis, pending, connections, sockets, timers>>

\* generateResponse returns the rule-based reply to the suspended turn
ResumeChatRule(sessionId) ==
  /\ inflight[sessionId] # Undefined
  /\ inflight[sessionId][1].phase = "reply"
  /\ Resumed(sessionId,
       chatResume(store, sessionId, inflight[sessionId][1],
         generateResponse("rule", <<>>, inflight[sessionId][1].text,
                          inflight[sessionId][1].updatedRequirements), "rule"))

\* generateResponse returns a reply of the completion service
ResumeChatAi(sessionId) ==
  /\ inflight[sessionId] # Undefined
  /\ inflight[sessionId][1].phase = "reply"
  /\ \E aiReply \in AiReplies :
       Resumed(sessionId,
         chatResume(store, sessionId, inflight[sessionId][1],
           generateResponse("ai", aiReply, inflight[sessionId][1].text,
                            inflight[sessionId][1].updatedRequirements), "ai"))

\* searchHousingLinks returns its results to the suspended turn
FinishSearch(sessionId) ==
  /\ inflight[sessionId] # Undefined
  /\ inflight[sessionId][1].phase = "search"
  /\ \E results \in SearchResults :
       /\ store' = chatFinishSearch(store, sessionId, inflight[sessionId][1], results).store
       /\ trace' = Append(trace,
                     chatFinishSearch(store, sessionId, inflight[sessionId][1], results).handled)
  /\ inflight' = [inflight EXCEPT ![sessionId] = Undefined]
  /\ UNCHANGED <<redis, pending, connections, sockets, timers>>

\* /chat turns of two sessions, interleaved at their awaits, at most one turn
\* in flight per session
NextInterleave ==
  \/ BeginChat("s1", FeedbackUtterances, MaxInterleavedTurns)
  \/ BeginChat("s2", FeedbackUtterances, MaxInterleavedTurns)
  \/ ResumeChatRule("s1")
  \/ ResumeChatRule("s2")
  \/ ResumeChatAi("s1")
  \/ ResumeChatAi("s2")
  \/ FinishSearch("s1")
  \/ FinishSearch("s2")

SpecInterleave == Init /\ [][NextInterleave]_vars

----------------------------------------------------------------------------
(* googleSearch.js: class RedisMemory, the durable session store           *)

\* JavaScript null as the value of a requirements slot: set, and no string
Null == Some(<< "null" >>)

\* googleSearch.js:129-149  createDefaultSession()
RedisMemory_createDefaultSession ==
  [requirements |->
     [propertyType |-> Null, budget |-> Null, city |-> Null,
      locality |-> Null, bhk |-> Null, confirmed |-> Some(FALSE),
      waitingForConfirmation |-> Some(FALSE), conversationStarted |-> Undefined],
   conversationHistory |-> <<>>,
   currentState |-> "introduction",
   propertySearchHistory |-> <<>>,
   userFeedback |-> <<>>,
   callInfo |-> "null",
   propertyInfo |-> "null",
   customerInfo |-> "null",
   meetingInfo |-> "null"]

\* googleSearch.js:214-215  the number of messages kept per session
RedisHistoryCap == 50

\* googleSearch.js:151-167  get(sessionId) of a connected client: what
\* JSON.parse gives for the string under the key, or the default session.
\* The sessions are built of strings, booleans, null, arrays and absent
\* properties, which JSON.stringify and JSON.parse give back as they were;
\* db holds the parsed value per key.
RedisMemory_get(db, sessionId) ==
  IF db[sessionId] = Undefined THEN RedisMemory_createDefaultSession
  ELSE db[sessionId][1]

\* googleSearch.js:169-181  set(sessionId, data) of a connected client
RedisMemory_set(db, sessionId, data) == [db EXCEPT ![sessionId] = Some(data)]

\* googleSearch.js:200-204, 206-218  a call of updateRequirements or of
\* addToConversationHistory with its arguments
RedisCall(method, role, message, requirements) ==
  [method |-> method, role |-> role, message |-> message,
   requirements |-> requirements]

\* googleSearch.js:207-216  what addToConversationHistory does to the session
\* it has read: the entry is pushed and the last 50 are kept
RedisMemory_pushed(session, role, message) ==
  [session EXCEPT !.conversationHistory =
     IF Len(Append(@, [role |-> role, content |-> message])) > RedisHistoryCap
       THEN sliceLast(Append(@, [role |-> role, content |-> message]), RedisHistoryCap)
       ELSE Append(@, [role |-> role, content |-> message])]

\* googleSearch.js:201-202  what updateRequirements does to the session it
\* has read: session.requirements = requirements
RedisMemory_replaced(session, requirements) ==
  [session EXCEPT !.requirements = requirements]

\* the session a call writes back, from the session it has read
RedisModified(session, call) ==
  IF call.method = "updateRequirements"
    THEN RedisMemory_replaced(session, call.requirements)
    ELSE RedisMemory_pushed(session, call.role, call.message)

\* the record of a store call that has written its session back
Settled(sessionId, call) ==
  [endpoint |-> "redis", sessionId |-> sessionId, call |-> call]

\* googleSearch.js:201, 207  `const session = await this.get(sessionId)`: the
\* call sends its GET and is suspended. The server runs the commands of the
\* connection in the order they were sent, so the GET reads what the SETs
\* sent before it have written.
SendGet(sessionId, call) ==
  /\ pending' = Append(pending,
                  [sessionId |-> sessionId, call |-> call,
                   session |-> RedisMemory_get(redis, sessionId)])
  /\ UNCHANGED <<store, trace, inflight, redis, connections, sockets, timers>>

\* the messages and the requirements the store calls carry
RedisMessages == { UtterMumbai, UtterYes }
RedisRequirements ==
  { confirmRequirements(text, EmptyRequirements) : text \in { UtterMumbai, UtterCompleteBuy } }

\* addToConversationHistory is called, as one of at most bound calls
CallAddToConversationHistory(sessionId, bound) ==
  /\ Len(trace) + Len(pending) < bound
  /\ \E message \in RedisMessages :
       SendGet(sessionId, RedisCall("addToConversationHistory", "user", message, EmptyRequirements))

\* updateRequirements is called, as one of at most bound calls
CallUpdateRequirements(sessionId, bound) ==
  /\ Len(trace) + Len(pending) < bound
  /\ \E requirements \in RedisRequirements :
       SendGet(sessionId, RedisCall("updateRequirements", "none", <<>>, requirements))

\* googleSearch.js:202-203, 208-217  the reply to the oldest GET arrives: the
\* call modifies the session it has read and sends its SET
SendSet ==
  /\ pending # <<>>
  /\ redis' = RedisMemory_set(redis, Head(pending).sessionId,
                RedisModified(Head(pending).session, Head(pending).call))
  /\ pending' = Tail(pending)
  /\ trace' = Append(trace, Settled(Head(pending).sessionId, Head(pending).call))
  /\ UNCHANGED <<store, inflight, connections, sockets, timers>>

\* calls of the durable store on two sessions, a call being free to start
\* before the calls issued earlier have written back
NextRedis ==
  \/ CallAddToConversationHistory("s1", MaxRedisCalls)
  \/ CallAddToConversationHistory("s2", MaxRedisCalls)
  \/ CallUpdateRequirements("s1", MaxRedisCalls)
  \/ CallUpdateRequirements("s2", MaxRedisCalls)
  \/ SendSet

SpecRedis == Init /\ [][NextRedis]_vars

----------------------------------------------------------------------------
(* server.js: POST /chat on the durable store                              *)

\* server.js:53-54  what the handler reads of the requirements: RedisMemory's
\* getRequirements returns a Promise (googleSearch.js:196-198) and the
\* handler does not await it, so { ...currentRequirements } has no property
\* and currentRequirements.confirmed, .waitingForConfirmation and every slot
\* read as undefined
PromiseProperties == EmptyRequirements

\* googleSearch.js:230-238, 224-228  addPropertySearchResult and
\* updateConversationState, called one after the other without await
\* (server.js:131-132): both read the session before either writes, and the
\* state is written last
RedisMemory_searched(db, sessionId, session, query, results) ==
  RedisMemory_set(
    RedisMemory_set(db, sessionId,
      [session EXCEPT !.propertySearchHistory =
         Append(@, [query |-> query, results |-> results])]),
    sessionId, [session EXCEPT !.currentState = "presenting_results"])

\* server.js:114-147  the search trigger. before is the session the store
\* calls of the turn have read, db the database after they have written;
\* early tells whether searchHousingLinks returned before they wrote, so that
\* the calls of the search read the same session too
redisChatSearch(db, sessionId, before, text, updatedRequirements, aiResponse, results, early) ==
  IF shouldSearchProperties(updatedRequirements) /\ searchKeywords(aiResponse)
    THEN [db |-> RedisMemory_searched(db, sessionId,
                   IF early THEN before ELSE RedisMemory_get(db, sessionId),
                   generateSearchQuery(updatedRequirements), results),
          handled |-> Handled("chat", sessionId, text, PromiseProperties,
                        updatedRequirements,
                        RedisMemory_get(db, sessionId).requirements, "rule",
                        aiResponse,
                        Some(generateSearchQuery(updatedRequirements)), results)]
    ELSE [db |-> db,
          handled |-> Handled("chat", sessionId, text, PromiseProperties,
                        updatedRequirements,
                        RedisMemory_get(db, sessionId).requirements, "rule",
                        aiResponse, Undefined, <<>>)]

\* server.js:50, 103, 112  the three store calls of the turn: none is
\* awaited and all have sent their GET before a reply arrives, so each
\* modifies the session as it was before the turn; they write back in order
redisChatWrite(db, sessionId, before, text, updatedRequirements, aiResponse, results, early) ==
  redisChatSearch(
    RedisMemory_set(
      RedisMemory_set(
        RedisMemory_set(db, sessionId, RedisMemory_pushed(before, "user", text)),
        sessionId, RedisMemory_replaced(before, updatedRequirements)),
      sessionId, RedisMemory_pushed(before, "assistant", aiResponse)),
    sessionId, before, text, updatedRequirements, aiResponse, results, early)

\* server.js:105-107  generateResponse is given a Promise as history: without
\* API key it returns the rule-based reply (part_002:36-39), with one the
\* spread of the Promise throws inside the try and the catch returns the
\* rule-based reply (part_002:41-44, 65-68)
redisChatRespond(db, sessionId, text, updatedRequirements, results, early) ==
  redisChatWrite(db, sessionId, RedisMemory_get(db, sessionId), text,
                 updatedRequirements,
                 getFallbackResponse(text, updatedRequirements), results, early)

\* server.js:37-155  a turn of POST /chat with `memory` a connected
\* RedisMemory, run until its store calls have written back
redisChatTurn(db, sessionId, text, results, early) ==
  redisChatRespond(db, sessionId, text,
                   confirmRequirements(text, PromiseProperties), results, early)

\* the record of a turn given to both stores
Both(sessionId, memory, durable) ==
  [endpoint |-> "both", sessionId |-> sessionId, memory |-> memory,
   durable |-> durable]

\* the utterances of the turns given to both stores
StoreUtterances == { UtterWantToBuy, UtterMumbai, UtterCompleteBuy, UtterYes }

\* the same /chat turn is handled on the in-memory store and on the durable
\* store, the completion service not being configured, as one of at most
\* bound turns
ChatBoth(sessionId, bound) ==
  /\ Len(trace) < bound
  /\ \E text \in StoreUtterances, results \in SearchResults, early \in BOOLEAN :
       /\ store' = chatTurn(store, sessionId, text, "rule", <<>>, results).store
       /\ redis' = redisChatTurn(redis, sessionId, text, results, early).db
       /\ trace' = Append(trace,
                     Both(sessionId,
                          chatTurn(store, sessionId, text, "rule", <<>>, results).handled,
                          redisChatTurn(redis, sessionId, text, results, early).handled))
  /\ UNCHANGED <<inflight, pending, connections, sockets, timers>>

\* the two stores side by side: the same turns on both
NextStores ==
  \/ ChatBoth("s1", MaxStoreTurns)

SpecStores == Init /\ [][NextStores]_vars

----------------------------------------------------------------------------
(* aiConversation.generateSearchQuery called on its own                    *)

\* requirements records the query may be built from: every combination of
\* set and unset slots (a locality may also be the empty string)
QueryInputs ==
  [propertyType : {Undefined, Some(<<"b","u","y">>), Some(<<"r","e","n","t">>)},
   budget : {Undefined, Some(<<"5","0"," ","L","a","k","h">>)},
   city : {Undefined, Some(<<"M","u","m","b","a","i">>)},
   locality : {Undefined, Some(<<>>), Some(<<"W","a","k","a","d">>)},
   bhk : {Undefined, Some(<<"2","B","H","K">>)},
   confirmed : {Some(TRUE)},
   waitingForConfirmation : {Some(FALSE)},
   conversationStarted : {Some(TRUE)}]

\* the record of a call: the requirements given and the query returned
Queried(requirements) ==
  [endpoint |-> "query", requirements |-> requirements,
   query |-> generateSearchQuery(requirements)]

\* generateSearchQuery is called with a requirements record, as one of at
\* most bound calls; it reads the record and changes nothing
BuildQuery(bound) ==
  /\ Len(trace) < bound
  /\ \E requirements \in QueryInputs :
       trace' = Append(trace, Queried(requirements))
  /\ UNCHANGED <<store, inflight, redis, pending, connections, sockets, timers>>

NextQuery ==
  \/ BuildQuery(MaxQueryCalls)

SpecQuery == Init /\ [][NextQuery]_vars

----------------------------------------------------------------------------
(* The collaborators of POST /chat: completion service and search service  *)

\* googleSearch.js:15-19  the links returned when SERPER_API_KEY is not set
MockLinks ==
  << "https://housing.com/example/1", "https://housing.com/example/2",
     "https://housing.com/example/3" >>

\* googleSearch.js:62-66  the links returned when the request fails
FallbackLinks ==
  << "https://housing.com/in/buy/searches/R5251-lajpat-nagar",
     "https://housing.com/in/buy/lajpat-nagar-delhi",
     "https://housing.com/property/lajpat-nagar-3bhk" >>

\* what happens to the completion request of a turn: no API key is set
\* ("unconfigured"), the request or the reading of its response throws
\* ("fails"), or the service returns a reply ("answers")
CompletionOutcomes ==
  { [kind |-> "unconfigured", reply |-> <<>>], [kind |-> "fails", reply |-> <<>>] }
    \cup { [kind |-> "answers", reply |-> r] : r \in AiReplies }

\* what happens to the search request of a turn, likewise
SearchOutcomes ==
  { [kind |-> "unconfigured", results |-> <<>>], [kind |-> "fails", results |-> <<>>] }
    \cup { [kind |-> "answers", results |-> r] : r \in SearchResults }

\* part_002:33-69  which reply generateResponse returns: the rule-based one
\* without API key (36-39) and from the catch (65-68), the service's otherwise
completionStrategy(completion) ==
  IF completion.kind = "answers" THEN "ai" ELSE "rule"

\* a search whose failure gives no link
searchHousingLinks_EmptyOnFailure(search) ==
  IF search.kind = "unconfigured" THEN MockLinks
  ELSE IF search.kind = "fails" THEN <<>>
  ELSE search.results

\* googleSearch.js:11-68  searchHousingLinks(query): the links returned,
\* which do not depend on the query unless the service answers
searchHousingLinks(search) ==
  IF search.kind = "unconfigured" THEN MockLinks
  ELSE IF search.kind = "fails" THEN FallbackLinks
  ELSE search.results

\* the record of a turn with what happened to its two requests
Served(handled, completion, search) ==
  [endpoint |-> "served", sessionId |-> handled.sessionId, handled |-> handled,
   completion |-> completion, search |-> search]

\* server.js:37-155  a chat turn with the outcomes of its collaborators, as
\* one of at most bound turns
ChatServed(sessionId, texts, bound) ==
  /\ Len(trace) < bound
  /\ \E text \in texts, completion \in CompletionOutcomes, search \in SearchOutcomes :
       /\ store' = chatTurn(store, sessionId, text, completionStrategy(completion),
                            completion.reply, searchHousingLinks(search)).store
       /\ trace' = Append(trace,
                     Served(chatTurn(store, sessionId, text, completionStrategy(completion),
                                     completion.reply, searchHousingLinks(search)).handled,
                            completion, search))
  /\ UNCHANGED <<inflight, redis, pending, connections, sockets, timers>>

\* chat turns of one session whose collaborators are unconfigured, fail or
\* answer
NextServices ==
  \/ ChatServed("s1", FeedbackUtterances, MaxServedTurns)

SpecServices == Init /\ [][NextServices]_vars

----------------------------------------------------------------------------
(* salesAgent.js: the texts of the sales agent                             *)

\* salesAgent.js:104
SalesHello ==
  <<"H","e","l","l","o"," ">>
\* salesAgent.js:98
SalesThere ==
  <<"t","h","e","r","e">>
\* salesAgent.js:104
SalesIntroMiddle ==
  <<"!"," ","T","h","i","s"," ","i","s"," ","S","a","r","a","h"," ","f","r","o","m"," ","H","o","u","s","i","n","g",".","c","o","m","."," ","I"," ","h","o","p","e"," ","y","o","u","'","r","e"," ","d","o","i","n","g"," ","w","e","l","l","."," ","I","'","m"," ","c","a","l","l","i","n","g"," ","r","e","g","a","r","d","i","n","g"," ","t","h","e"," ">>
\* salesAgent.js:104
SalesProperty ==
  <<"p","r","o","p","e","r","t","y">>
\* salesAgent.js:104
SalesIntroEnd ==
  <<" ","y","o","u"," ","r","e","c","e","n","t","l","y"," ","e","n","q","u","i","r","e","d"," ","a","b","o","u","t","."," ","I","s"," ","t","h","i","s"," ","a"," ","g","o","o","d"," ","t","i","m","e"," ","t","o"," ","t","a","l","k","?">>
\* salesAgent.js:114
SalesCallBack ==
  <<"I"," ","c","o","m","p","l","e","t","e","l","y"," ","u","n","d","e","r","s","t","a","n","d","."," ","W","h","e","n"," ","w","o","u","l","d"," ","b","e"," ","a"," ","c","o","n","v","e","n","i","e","n","t"," ","t","i","m","e"," ","f","o","r"," ","m","e"," ","t","o"," ","c","a","l","l"," ","y","o","u"," ","b","a","c","k","?"," ","W","o","u","l","d"," ","t","o","m","o","r","r","o","w"," ","e","v","e","n","i","n","g"," ","a","r","o","u","n","d"," ","6"," ","P","M"," ","w","o","r","k"," ","f","o","r"," ","y","o","u","?">>
\* salesAgent.js:120
SalesTwoMinutes ==
  <<"I"," ","u","n","d","e","r","s","t","a","n","d"," ","y","o","u","'","r","e"," ","b","u","s","y","."," ","C","o","u","l","d"," ","I"," ","t","a","k","e"," ","j","u","s","t"," ","2"," ","m","i","n","u","t","e","s"," ","o","f"," ","y","o","u","r"," ","t","i","m","e"," ","t","o"," ","s","h","a","r","e"," ","s","o","m","e"," ","e","x","c","i","t","i","n","g"," ","u","p","d","a","t","e","s"," ","a","b","o","u","t"," ","t","h","i","s"," ","p","r","o","p","e","r","t","y","?">>
\* salesAgent.js:131
SalesGreatStart ==
  <<"G","r","e","a","t","!"," ","I"," ","w","a","n","t","e","d"," ","t","o"," ","d","i","s","c","u","s","s"," ","t","h","e"," ">>
\* salesAgent.js:131
SalesIn ==
  <<" ","i","n"," ">>
\* salesAgent.js:131
SalesPrimeLocation ==
  <<"p","r","i","m","e"," ","l","o","c","a","t","i","o","n">>
\* salesAgent.js:131
SalesGreatMiddle ==
  <<"."," ","A","r","e"," ","y","o","u"," ","s","t","i","l","l"," ","i","n","t","e","r","e","s","t","e","d"," ","i","n"," ","l","e","a","r","n","i","n","g"," ","m","o","r","e"," ","a","b","o","u","t"," ","t","h","i","s"," ">>
\* salesAgent.js:131
SalesWellPriced ==
  <<"w","e","l","l","-","p","r","i","c","e","d">>
\* salesAgent.js:131
SalesGreatEnd ==
  <<" ","p","r","o","p","e","r","t","y","?">>
\* salesAgent.js:137
SalesWonderful ==
  <<"W","o","n","d","e","r","f","u","l","!"," ","T","h","a","n","k"," ","y","o","u"," ","f","o","r"," ","y","o","u","r"," ","t","i","m","e","."," ","I","'","m"," ","c","a","l","l","i","n","g"," ","a","b","o","u","t"," ","t","h","e"," ","p","r","o","p","e","r","t","y"," ","y","o","u"," ","s","h","o","w","e","d"," ","i","n","t","e","r","e","s","t"," ","i","n","."," ","A","r","e"," ","y","o","u"," ","s","t","i","l","l"," ","l","o","o","k","i","n","g"," ","f","o","r"," ","a"," ","p","r","o","p","e","r","t","y"," ","i","n"," ","t","h","i","s"," ","a","r","e","a","?">>
\* salesAgent.js:147
SalesExcellentStart ==
  <<"E","x","c","e","l","l","e","n","t","!"," ","T","h","i","s"," ">>
\* salesAgent.js:147
SalesBeautiful ==
  <<"b","e","a","u","t","i","f","u","l">>
\* salesAgent.js:147
SalesOffers ==
  <<" ","p","r","o","p","e","r","t","y"," ","o","f","f","e","r","s"," ">>
\* salesAgent.js:147
SalesGreatAmenities ==
  <<"g","r","e","a","t"," ","a","m","e","n","i","t","i","e","s">>
\* salesAgent.js:147
SalesAndIs ==
  <<" ","a","n","d"," ","i","s"," ">>
\* salesAgent.js:147
SalesPricedAt ==
  <<"p","r","i","c","e","d"," ","a","t"," ">>
\* salesAgent.js:147
SalesForRentAt ==
  <<"a","v","a","i","l","a","b","l","e"," ","f","o","r"," ","r","e","n","t"," ","a","t"," ">>
\* salesAgent.js:147
SalesExcellentEnd ==
  <<"."," ","W","o","u","l","d"," ","y","o","u"," ","b","e"," ","i","n","t","e","r","e","s","t","e","d"," ","i","n"," ","s","c","h","e","d","u","l","i","n","g"," ","a"," ","s","i","t","e"," ","v","i","s","i","t"," ","t","h","i","s"," ","w","e","e","k","e","n","d","?">>
\* salesAgent.js:156
SalesVisit ==
  <<"P","e","r","f","e","c","t","!"," ","I"," ","c","a","n"," ","a","r","r","a","n","g","e"," ","a"," ","s","i","t","e"," ","v","i","s","i","t"," ","f","o","r"," ","y","o","u","."," ","W","o","u","l","d"," ","S","a","t","u","r","d","a","y"," ","a","f","t","e","r","n","o","o","n"," ","a","r","o","u","n","d"," ","3"," ","P","M"," ","w","o","r","k"," ","f","o","r"," ","y","o","u",","," ","o","r"," ","w","o","u","l","d"," ","y","o","u"," ","p","r","e","f","e","r"," ","S","u","n","d","a","y"," ","m","o","r","n","i","n","g","?"," ","I","'","l","l"," ","a","l","s","o"," ","s","h","a","r","e"," ","t","h","e"," ","e","x","a","c","t"," ","l","o","c","a","t","i","o","n"," ","a","n","d"," ","m","y"," ","c","o","n","t","a","c","t"," ","d","e","t","a","i","l","s",".">>
\* salesAgent.js:171
SalesGoodbye ==
  <<"I"," ","c","o","m","p","l","e","t","e","l","y"," ","u","n","d","e","r","s","t","a","n","d","."," ","T","h","a","n","k"," ","y","o","u"," ","f","o","r"," ","t","a","k","i","n","g"," ","t","h","e"," ","t","i","m","e"," ","t","o"," ","s","p","e","a","k"," ","w","i","t","h"," ","m","e"," ","t","o","d","a","y","."," ","I","f"," ","y","o","u","r"," ","s","i","t","u","a","t","i","o","n"," ","c","h","a","n","g","e","s"," ","i","n"," ","t","h","e"," ","f","u","t","u","r","e",","," ","p","l","e","a","s","e"," ","d","o","n","'","t"," ","h","e","s","i","t","a","t","e"," ","t","o"," ","r","e","a","c","h"," ","o","u","t","."," ","H","a","v","e"," ","a"," ","w","o","n","d","e","r","f","u","l"," ","d","a","y","!">>
\* salesAgent.js:173
SalesClosedStart ==
  <<"C","a","l","l"," ","c","o","m","p","l","e","t","e","d","."," ","R","e","a","s","o","n",":"," ">>
\* salesAgent.js:173
SalesClosedEnd ==
  <<"."," ","C","u","s","t","o","m","e","r"," ","w","a","s"," ","p","o","l","i","t","e"," ","b","u","t"," ","n","o","t"," ","i","n","t","e","r","e","s","t","e","d"," ","a","t"," ","t","h","i","s"," ","t","i","m","e",".">>
\* salesAgent.js:164
ReasonNotInterested ==
  <<"C","u","s","t","o","m","e","r"," ","n","o","t"," ","i","n","t","e","r","e","s","t","e","d">>
\* salesAgent.js:165
ReasonBudget ==
  <<"B","u","d","g","e","t"," ","c","o","n","s","t","r","a","i","n","t","s">>
\* salesAgent.js:166
ReasonLocation ==
  <<"L","o","c","a","t","i","o","n"," ","n","o","t"," ","s","u","i","t","a","b","l","e">>
\* salesAgent.js:167
ReasonAlready ==
  <<"A","l","r","e","a","d","y"," ","p","u","r","c","h","a","s","e","d"," ","e","l","s","e","w","h","e","r","e">>
\* salesAgent.js:168
ReasonTiming ==
  <<"T","i","m","i","n","g"," ","n","o","t"," ","r","i","g","h","t">>
\* salesAgent.js:180
SalesConfirmed ==
  <<"W","o","n","d","e","r","f","u","l","!"," ","I","'","l","l"," ","s","e","n","d"," ","y","o","u"," ","a"," ","c","o","n","f","i","r","m","a","t","i","o","n"," ","m","e","s","s","a","g","e"," ","w","i","t","h"," ","a","l","l"," ","t","h","e"," ","d","e","t","a","i","l","s"," ","s","h","o","r","t","l","y","."," ","T","h","a","n","k"," ","y","o","u"," ","f","o","r"," ","y","o","u","r"," ","t","i","m","e"," ","t","o","d","a","y",","," ","a","n","d"," ","I"," ","l","o","o","k"," ","f","o","r","w","a","r","d"," ","t","o"," ","s","h","o","w","i","n","g"," ","y","o","u"," ","t","h","i","s"," ","b","e","a","u","t","i","f","u","l"," ","p","r","o","p","e","r","t","y","."," ","H","a","v","e"," ","a"," ","g","r","e","a","t"," ","d","a","y","!">>
\* salesAgent.js:182
SalesConfirmedSummary ==
  <<"S","i","t","e"," ","v","i","s","i","t"," ","s","c","h","e","d","u","l","e","d"," ","s","u","c","c","e","s","s","f","u","l","l","y","."," ","C","u","s","t","o","m","e","r"," ","c","o","n","f","i","r","m","e","d"," ","a","v","a","i","l","a","b","i","l","i","t","y"," ","a","n","d"," ","e","x","p","r","e","s","s","e","d"," ","g","e","n","u","i","n","e"," ","i","n","t","e","r","e","s","t",".">>
\* salesAgent.js:188
SalesDefault ==
  <<"I"," ","u","n","d","e","r","s","t","a","n","d","."," ","C","o","u","l","d"," ","y","o","u"," ","p","l","e","a","s","e"," ","s","h","a","r","e"," ","w","h","a","t"," ","s","p","e","c","i","f","i","c"," ","a","s","p","e","c","t"," ","y","o","u","'","d"," ","l","i","k","e"," ","t","o"," ","k","n","o","w"," ","m","o","r","e"," ","a","b","o","u","t","?"," ","I","'","m"," ","h","e","r","e"," ","t","o"," ","h","e","l","p"," ","w","i","t","h"," ","a","n","y"," ","q","u","e","s","t","i","o","n","s"," ","a","b","o","u","t"," ","t","h","e"," ","p","r","o","p","e","r","t","y",","," ","p","r","i","c","i","n","g",","," ","o","r"," ","s","c","h","e","d","u","l","i","n","g"," ","a"," ","v","i","s","i","t",".">>
\* salesAgent.js:216
OutcomeDiscussed ==
  <<"D","i","s","c","u","s","s","e","d"," ","p","r","o","p","e","r","t","y"," ","d","e","t","a","i","l","s">>
\* salesAgent.js:217
StepsFollowUp ==
  <<"F","o","l","l","o","w"," ","u","p"," ","l","a","t","e","r">>
\* salesAgent.js:220
OutcomeVisit ==
  <<"S","i","t","e"," ","v","i","s","i","t"," ","s","c","h","e","d","u","l","e","d">>
\* salesAgent.js:221
StepsVisit ==
  <<"S","e","n","d"," ","v","i","s","i","t"," ","c","o","n","f","i","r","m","a","t","i","o","n"," ","a","n","d"," ","l","o","c","a","t","i","o","n"," ","d","e","t","a","i","l","s">>
\* salesAgent.js:223
OutcomeNotInterested ==
  <<"C","u","s","t","o","m","e","r"," ","n","o","t"," ","i","n","t","e","r","e","s","t","e","d">>
\* salesAgent.js:224
StepsClosed ==
  <<"U","p","d","a","t","e"," ","l","e","a","d"," ","s","t","a","t","u","s"," ","a","s"," ","c","l","o","s","e","d">>
\* salesAgent.js:226
OutcomeFollowUp ==
  <<"F","o","l","l","o","w","-","u","p"," ","c","a","l","l"," ","r","e","q","u","e","s","t","e","d">>
\* salesAgent.js:227
StepsCallback ==
  <<"S","c","h","e","d","u","l","e"," ","c","a","l","l","b","a","c","k"," ","a","s"," ","p","e","r"," ","c","u","s","t","o","m","e","r"," ","p","r","e","f","e","r","e","n","c","e">>
\* salesAgent.js:230
SummaryProperty ==
  <<"."," ","P","r","o","p","e","r","t","y",":"," ">>
\* salesAgent.js:230
PropertyDiscussed ==
  <<"P","r","o","p","e","r","t","y"," ","d","i","s","c","u","s","s","e","d">>
\* salesAgent.js:230
SummaryDuration ==
  <<"."," ","D","u","r","a","t","i","o","n",":"," ","~">>
\* salesAgent.js:230
SummaryNextSteps ==
  <<" ","m","i","n","u","t","e","s","."," ","N","e","x","t"," ","s","t","e","p","s",":"," ">>
\* salesAgent.js:195-203  endIndicators
endIndicators ==
  << <<"t","h","a","n","k"," ","y","o","u"," ","f","o","r"," ","y","o","u","r"," ","t","i","m","e">>,
     <<"h","a","v","e"," ","a"," ","w","o","n","d","e","r","f","u","l"," ","d","a","y">>,
     <<"h","a","v","e"," ","a"," ","g","r","e","a","t"," ","d","a","y">>,
     <<"c","a","l","l"," ","y","o","u"," ","b","a","c","k">>,
     <<"s","e","n","d"," ","y","o","u"," ","c","o","n","f","i","r","m","a","t","i","o","n">>,
     <<"n","o","t"," ","i","n","t","e","r","e","s","t","e","d">>,
     <<"a","l","r","e","a","d","y"," ","b","o","u","g","h","t">> >>

----------------------------------------------------------------------------
(* salesAgent.js: the sales agent                                          *)

\* `value || fallback` for an optional string
OrElse(o, fallback) == IF Truthy(o) THEN o[1] ELSE fallback

\* an optional string inside a template literal
Interpolated(o) == IF o = Undefined THEN <<"u","n","d","e","f","i","n","e","d">> ELSE o[1]

\* conversationHistory.some(msg => msg.content.includes(sub))
someContentIncludes(conversationHistory, sub) ==
  \E i \in 1..Len(conversationHistory) : includes(conversationHistory[i].content, sub)

\* a reply of the sales agent: summary is Undefined for null
AgentResult(response, callEnded, summary) ==
  [response |-> response, callEnded |-> callEnded, summary |-> summary]

\* salesAgent.js:162-168  the reason named by an utterance of a customer who
\* is not interested: the last of the four cues that occurs
notInterestedReason(lower) ==
  IF includes(lower, <<"t","i","m","i","n","g">>) THEN ReasonTiming
  ELSE IF includes(lower, <<"a","l","r","e","a","d","y">>) THEN ReasonAlready
  ELSE IF includes(lower, <<"l","o","c","a","t","i","o","n">>) THEN ReasonLocation
  ELSE IF includes(lower, <<"b","u","d","g","e","t">>) THEN ReasonBudget
  ELSE ReasonNotInterested

\* salesAgent.js:145-151  the reply to a customer who wants details
salesDetails(propertyInfo) ==
  SalesExcellentStart \o OrElse(propertyInfo.bhk, SalesBeautiful)
    \o SalesOffers \o OrElse(propertyInfo.amenities, SalesGreatAmenities)
    \o SalesAndIs
    \o (IF propertyInfo.type = Some(<<"S","a","l","e">>)
          THEN SalesPricedAt \o Interpolated(propertyInfo.price)
          ELSE SalesForRentAt \o Interpolated(propertyInfo.price))
    \o SalesExcellentEnd

\* salesAgent.js:110-191  the replies after the introduction, on the
\* lower-cased utterance
salesReply(lower, conversationHistory, propertyInfo) ==
  IF includes(lower, <<"n","o">>) \/ includes(lower, <<"b","u","s","y">>) \/ includes(lower, <<"n","o","t"," ","a"," ","g","o","o","d"," ","t","i","m","e">>)
    THEN IF someContentIncludes(conversationHistory, <<"2"," ","m","i","n","u","t","e","s">>)
           THEN AgentResult(SalesCallBack, FALSE, Undefined)
           ELSE AgentResult(SalesTwoMinutes, FALSE, Undefined)
  ELSE IF includes(lower, <<"y","e","s">>) \/ includes(lower, <<"s","u","r","e">>) \/ includes(lower, <<"o","k">>) \/ includes(lower, <<"g","o","o","d"," ","t","i","m","e">>)
    THEN IF someContentIncludes(conversationHistory, <<"g","o","o","d"," ","t","i","m","e">>)
           THEN AgentResult(
                  SalesGreatStart \o OrElse(propertyInfo.title, SalesProperty)
                    \o SalesIn \o OrElse(propertyInfo.location, SalesPrimeLocation)
                    \o SalesGreatMiddle \o OrElse(propertyInfo.price, SalesWellPriced)
                    \o SalesGreatEnd, FALSE, Undefined)
           ELSE AgentResult(SalesWonderful, FALSE, Undefined)
  ELSE IF includes(lower, <<"i","n","t","e","r","e","s","t","e","d">>) \/ includes(lower, <<"t","e","l","l"," ","m","e"," ","m","o","r","e">>) \/ includes(lower, <<"d","e","t","a","i","l","s">>)
    THEN AgentResult(salesDetails(propertyInfo), FALSE, Undefined)
  ELSE IF includes(lower, <<"v","i","s","i","t">>) \/ includes(lower, <<"s","e","e">>) \/ includes(lower, <<"w","e","e","k","e","n","d">>) \/ includes(lower, <<"s","a","t","u","r","d","a","y">>) \/ includes(lower, <<"s","u","n","d","a","y">>)
    THEN AgentResult(SalesVisit, FALSE, Undefined)
  ELSE IF includes(lower, <<"n","o","t"," ","i","n","t","e","r","e","s","t","e","d">>) \/ includes(lower, <<"a","l","r","e","a","d","y"," ","b","o","u","g","h","t">>) \/ includes(lower, <<"f","o","u","n","d">>) \/ includes(lower, <<"d","o","n","'","t"," ","n","e","e","d">>)
    THEN AgentResult(SalesGoodbye, TRUE,
           Some(SalesClosedStart \o notInterestedReason(lower) \o SalesClosedEnd))
  ELSE IF includes(lower, <<"c","o","n","f","i","r","m">>) \/ includes(lower, <<"s","o","u","n","d","s"," ","g","o","o","d">>) \/ includes(lower, <<"p","e","r","f","e","c","t">>)
    THEN AgentResult(SalesConfirmed, TRUE, Some(SalesConfirmedSummary))
  ELSE AgentResult(SalesDefault, FALSE, Undefined)

\* salesAgent.js:96-192  getFallbackResponse(userMessage, conversationHistory,
\* propertyInfo, customerInfo), of which customerInfo.name is read
SalesAgent_getFallbackResponse(userMessage, conversationHistory, propertyInfo, customerName) ==
  IF Len(conversationHistory) <= 1
    THEN AgentResult(
           SalesHello \o OrElse(customerName, SalesThere) \o SalesIntroMiddle
             \o OrElse(propertyInfo.title, SalesProperty) \o SalesIntroEnd,
           FALSE, Undefined)
    ELSE salesReply(toLowerCase(userMessage), conversationHistory, propertyInfo)

\* salesAgent.js:194-207  shouldEndCall(response, conversationHistory)
shouldEndCall(response) ==
  \E k \in 1..Len(endIndicators) : includes(toLowerCase(response), endIndicators[k])

\* salesAgent.js:210-211  Math.max(1, Math.floor(totalMessages / 2))
callDuration(conversationHistory) ==
  IF Len(conversationHistory) \div 2 >= 1 THEN Len(conversationHistory) \div 2 ELSE 1

\* salesAgent.js:214  the last four entries, lower-cased and joined by spaces
lastFewMessages(conversationHistory) ==
  joinWithSpace([i \in 1..Len(sliceLast(conversationHistory, 4)) |->
                   toLowerCase(sliceLast(conversationHistory, 4)[i].content)])

\* salesAgent.js:216-228  outcome and next steps read from the last messages
callOutcome(lastFew) ==
  IF includes(lastFew, <<"v","i","s","i","t">>) \/ includes(lastFew, <<"s","c","h","e","d","u","l","e">>)
    THEN [outcome |-> OutcomeVisit, nextSteps |-> StepsVisit]
  ELSE IF includes(lastFew, <<"n","o","t"," ","i","n","t","e","r","e","s","t","e","d">>) \/ includes(lastFew, <<"a","l","r","e","a","d","y"," ","b","o","u","g","h","t">>)
    THEN [outcome |-> OutcomeNotInterested, nextSteps |-> StepsClosed]
  ELSE IF includes(lastFew, <<"c","a","l","l"," ","b","a","c","k">>) \/ includes(lastFew, <<"l","a","t","e","r">>)
    THEN [outcome |-> OutcomeFollowUp, nextSteps |-> StepsCallback]
  ELSE [outcome |-> OutcomeDiscussed, nextSteps |-> StepsFollowUp]

\* a summary that classifies the first four entries of the history
generateCallSummary_OldestFour(conversationHistory, propertyInfo) ==
  callOutcome(joinWithSpace([i \in 1..Len(sliceFirst(conversationHistory, 4)) |->
                toLowerCase(sliceFirst(conversationHistory, 4)[i].content)])).outcome
    \o SummaryProperty \o OrElse(propertyInfo.title, PropertyDiscussed)
    \o SummaryDuration \o numberToString(callDuration(conversationHistory))
    \o SummaryNextSteps
    \o callOutcome(joinWithSpace([i \in 1..Len(sliceFirst(conversationHistory, 4)) |->
                toLowerCase(sliceFirst(conversationHistory, 4)[i].content)])).nextSteps

\* salesAgent.js:209-231  generateCallSummary(conversationHistory,
\* propertyInfo, customerInfo)
generateCallSummary(conversationHistory, propertyInfo) ==
  callOutcome(lastFewMessages(conversationHistory)).outcome
    \o SummaryProperty \o OrElse(propertyInfo.title, PropertyDiscussed)
    \o SummaryDuration \o numberToString(callDuration(conversationHistory))
    \o SummaryNextSteps
    \o callOutcome(lastFewMessages(conversationHistory)).nextSteps

\* salesAgent.js:43-94  generateResponse: the completion service answers
\* (strategy "ai": its reply, the call ended if the reply says so, with a
\* summary), or it is not configured or fails (strategy "rule")
SalesAgent_generateResponse(strategy, aiReply, userMessage, conversationHistory, propertyInfo, customerName) ==
  IF strategy = "ai"
    THEN AgentResult(aiReply, shouldEndCall(aiReply),
           IF shouldEndCall(aiReply)
             THEN Some(generateCallSummary(conversationHistory, propertyInfo))
             ELSE Undefined)
    ELSE SalesAgent_getFallbackResponse(userMessage, conversationHistory,
                                        propertyInfo, customerName)

----------------------------------------------------------------------------
(* server.js: POST /sales-chat                                             *)

\* the record of a sales turn: what came in, the history the agent was given
\* and what it returned
SalesHandled(sessionId, text, strategy, conversationHistory, propertyInfo, agentResult) ==
  [endpoint |-> "sales", sessionId |-> sessionId, text |-> text,
   strategy |-> strategy, history |-> conversationHistory,
   propertyInfo |-> propertyInfo, replyText |-> agentResult.response,
   callEnded |-> agentResult.callEnded, summary |-> agentResult.summary]

\* server.js:282-296  the agent has answered: its reply is added to the
\* history and returned with callEnded and summary
\* (st: the store after the utterance has been added to the history)
salesRespond(st, sessionId, text, strategy, propertyInfo, agentResult) ==
  [store |-> addToConversationHistory(st, sessionId, "assistant", agentResult.response),
   handled |-> SalesHandled(sessionId, text, strategy,
                 getConversationHistory(st, sessionId), propertyInfo, agentResult)]

\* server.js:272-280  the agent is given the utterance, the history that
\* holds it, the property and the customer name
\* (st: the store after the utterance has been added to the history)
salesGenerate(st, sessionId, text, propertyInfo, customerName, strategy, aiReply) ==
  salesRespond(st, sessionId, text, strategy, propertyInfo,
    SalesAgent_generateResponse(strategy, aiReply, text,
      getConversationHistory(st, sessionId), propertyInfo, customerName))

\* server.js:257-305  a turn of POST /sales-chat with a non-empty sessionId
\* and text and a propertyInfo object, run to completion on the store st
salesChatTurn(st, sessionId, text, propertyInfo, customerName, strategy, aiReply) ==
  salesGenerate(addToConversationHistory(st, sessionId, "user", text),
                sessionId, text, propertyInfo, customerName, strategy, aiReply)

\* POST /sales-chat
SalesChat(sessionId, text, propertyInfo, customerName, strategy, aiReply) ==
  Done(salesChatTurn(store, sessionId, text, propertyInfo, customerName, strategy, aiReply))

\* propertyInfo of a request: an object without details, or with all of them
NoDetails ==
  [title |-> Undefined, location |-> Undefined, price |-> Undefined,
   bhk |-> Undefined, amenities |-> Undefined, type |-> Undefined]
SeaView ==
  [title |-> Some(<<"S","e","a"," ","V","i","e","w">>), location |-> Some(<<"B","a","n","e","r">>), price |-> Some(<<"8","0"," ","L","a","k","h">>),
   bhk |-> Some(<<"2","B","H","K">>), amenities |-> Some(<<"a"," ","g","y","m">>), type |-> Some(<<"S","a","l","e">>)]

\* propertyInfo and customerName of a request
SalesCallers ==
  { [propertyInfo |-> NoDetails, customerName |-> Undefined],
    [propertyInfo |-> SeaView, customerName |-> Some(<<"A","s","h","a">>)] }

\* what the customer says
SaysNo == <<"n","o">>
SaysYes == <<"y","e","s">>
SaysAlreadyBought == <<"a","l","r","e","a","d","y"," ","b","o","u","g","h","t"," ","i","t">>
SaysSoundsGood == <<"s","o","u","n","d","s"," ","g","o","o","d">>
SalesUtterances == { SaysNo, SaysYes, SaysAlreadyBought, SaysSoundsGood }

\* replies of the completion service: one that says it will call back, one
\* that proposes a visit
AgentReplyCallBack == <<"S","u","r","e",","," ","I"," ","w","i","l","l"," ","C","a","l","l"," ","Y","o","u"," ","B","a","c","k"," ","t","o","m","o","r","r","o","w",".">>
AgentReplyVisit == <<"S","h","a","l","l"," ","w","e"," ","p","l","a","n"," ","a"," ","v","i","s","i","t","?">>
SalesAiReplies == { AgentReplyCallBack, AgentReplyVisit }

\* a sales turn answered by the rule-based agent, as one of at most bound
\* requests
SalesChatRule(sessionId, texts, bound) ==
  /\ Len(trace) < bound
  /\ \E text \in texts, caller \in SalesCallers :
       SalesChat(sessionId, text, caller.propertyInfo, caller.customerName, "rule", <<>>)

\* a sales turn answered by the completion service
SalesChatAi(sessionId, texts, replies, bound) ==
  /\ Len(trace) < bound
  /\ \E text \in texts, caller \in SalesCallers, aiReply \in replies :
       SalesChat(sessionId, text, caller.propertyInfo, caller.customerName, "ai", aiReply)

\* a sales call: turns of one session under either strategy
NextSales ==
  \/ SalesChatRule("s1", SalesUtterances, MaxSalesTurns)
  \/ SalesChatAi("s1", SalesUtterances, SalesAiReplies, MaxSalesTurns)

SpecSales == Init /\ [][NextSales]_vars

\* what the customer says in a call that is summarised
SaysVisit == <<"c","a","n"," ","i"," ","v","i","s","i","t">>
SaysNotInterested == <<"N","o","t"," ","i","n","t","e","r","e","s","t","e","d">>
SaysLater == <<"m","a","y","b","e"," ","l","a","t","e","r">>
SaysFine == <<"f","i","n","e">>
SummaryUtterances == { SaysVisit, SaysNotInterested, SaysLater, SaysFine }

\* replies of the completion service: one that ends the call, one that
\* proposes a visit
AgentReplyGoodDay == <<"H","a","v","e"," ","a"," ","g","r","e","a","t"," ","d","a","y","!">>
SummaryReplies == { AgentReplyGoodDay, AgentReplyVisit }

\* a call answered by the completion service, which may end it at any turn
NextSummary ==
  \/ SalesChatAi("s1", SummaryUtterances, SummaryReplies, MaxSummaryTurns)

SpecSummary == Init /\ [][NextSummary]_vars

\* a long call: one customer utterance per turn, answered by the completion
\* service, which may end the call at any turn
NextLongCall ==
  \/ SalesChatAi("s1", {SaysFine}, SummaryReplies, MaxCallTurns)

SpecLongCall == Init /\ [][NextLongCall]_vars

\* what a customer who declines says
SaysFoundOne == <<"i"," ","f","o","u","n","d"," ","o","n","e">>
SaysDontNeed == <<"I"," ","d","o","n","'","t"," ","n","e","e","d"," ","i","t">>
ClosingUtterances == { SaysNotInterested, SaysAlreadyBought, SaysFoundOne, SaysDontNeed }

\* a call in which the customer declines, answered by the rule-based agent
NextClosing ==
  \/ SalesChatRule("s1", ClosingUtterances, MaxClosingTurns)

SpecClosing == Init /\ [][NextClosing]_vars

----------------------------------------------------------------------------
(* server.js: requests as they arrive, fields missing or empty included    *)

\* JavaScript truthiness of an optional identifier: defined and not ''
Given(o) == o # Undefined /\ o[1] # ""

\* the record of a request: its route, the body it carried, the status of
\* the response and, if a handler ran, the record of what it did
Posted(route, body, status, handled) ==
  [endpoint |-> "posted", route |-> route, body |-> body,
   status |-> status, handled |-> handled]

\* res.status(400): the request is answered and nothing else is done
rejected(st, route, body) ==
  [store |-> st, handled |-> Posted(route, body, 400, <<>>)]

\* the handler ran to its response
accepted(route, body, outcome) ==
  [store |-> outcome.store, handled |-> Posted(route, body, 200, <<outcome.handled>>)]

\* server.js:37-155  POST /chat
postChat(st, body, strategy, aiReply, results) ==
  IF ~Given(body.sessionId) \/ ~Truthy(body.text)
    THEN rejected(st, "chat", body)
    ELSE accepted("chat", body,
           chatTurn(st, body.sessionId[1], body.text[1], strategy, aiReply, results))

\* a POST /feedback that stores the feedback of an identified session before
\* it looks at the other fields
postFeedback_StoresFirst(st, body, results) ==
  IF ~Given(body.sessionId)
    THEN rejected(st, "feedback", body)
  ELSE IF ~Given(body.propertyId) \/ ~Truthy(body.feedback)
    THEN rejected(addUserFeedback(st, body.sessionId[1], "p1", <<>>, body.reason),
                  "feedback", body)
  ELSE accepted("feedback", body,
         feedbackTurn(st, body.sessionId[1], body.propertyId[1],
                      body.feedback[1], body.reason, results))

\* server.js:158-206  POST /feedback
postFeedback(st, body, results) ==
  IF ~Given(body.sessionId) \/ ~Given(body.propertyId) \/ ~Truthy(body.feedback)
    THEN rejected(st, "feedback", body)
    ELSE accepted("feedback", body,
           feedbackTurn(st, body.sessionId[1], body.propertyId[1],
                        body.feedback[1], body.reason, results))

\* server.js:257-305  POST /sales-chat, with a propertyInfo object
postSalesChat(st, body, strategy, aiReply) ==
  IF ~Given(body.sessionId) \/ ~Truthy(body.text)
    THEN rejected(st, "sales-chat", body)
    ELSE accepted("sales-chat", body,
           salesChatTurn(st, body.sessionId[1], body.text[1], body.propertyInfo,
                         body.customerName, strategy, aiReply))

\* the fields of a request body: missing, empty or given
PostedIds == { Undefined, Some(""), Some("s1") }
PostedTexts == { Undefined, Some(<<>>), Some(UtterYes) }
PostedFeedbacks == { Undefined, Some(<<>>), Some(Dislike) }
PostedPropertyIds == { Undefined, Some(""), Some("p1") }

\* the bodies of the three routes
ChatBodies == [sessionId : PostedIds, text : PostedTexts]
FeedbackBodies ==
  [sessionId : PostedIds, propertyId : PostedPropertyIds,
   feedback : PostedFeedbacks, reason : {Some(ReasonExpensive)}]
SalesChatBodies ==
  [sessionId : PostedIds, text : PostedTexts,
   propertyInfo : {NoDetails}, customerName : {Undefined}]

\* a POST /chat request arrives, as one of at most bound requests
PostChat(bound) ==
  /\ Len(trace) < bound
  /\ \E body \in ChatBodies :
       Done(postChat(store, body, "rule", <<>>, <<>>))

\* a POST /feedback request arrives
PostFeedback(bound) ==
  /\ Len(trace) < bound
  /\ \E body \in FeedbackBodies :
       Done(postFeedback(store, body, <<>>))

\* a POST /sales-chat request arrives
PostSalesChat(bound) ==
  /\ Len(trace) < bound
  /\ \E body \in SalesChatBodies :
       Done(postSalesChat(store, body, "rule", <<>>))

\* requests of the three routes, complete or not
NextValidation ==
  \/ PostChat(MaxRequests)
  \/ PostFeedback(MaxRequests)
  \/ PostSalesChat(MaxRequests)

SpecValidation == Init /\ [][NextValidation]_vars

----------------------------------------------------------------------------
(* server.js: voice calls.  Times (initiatedAt, lastUpdate) are not        *)
(* represented.                                                            *)

\* the record of a call request or of a status webhook
Called(route, sessionId, status, result) ==
  [endpoint |-> "call", route |-> route, sessionId |-> sessionId,
   status |-> status, result |-> result]

\* what a telephony service does with initiateCall: exotelService returns
\* success or failure (exotelService.js:50-62); twilioService returns
\* success or throws, for want of credentials or because the request failed
\* (part_004:27-29, 58-66)
ExotelOutcomes ==
  { [kind |-> "success", callSid |-> "CA1", status |-> "queued"],
    [kind |-> "failure", callSid |-> "", status |-> ""] }
TwilioOutcomes ==
  { [kind |-> "success", callSid |-> "CA1", status |-> "queued"],
    [kind |-> "unconfigured", callSid |-> "", status |-> ""],
    [kind |-> "throws", callSid |-> "", status |-> ""] }

\* server.js:347-352, 484-490  the callInfo stored for a call
callInfoOf(callResult, customerPhone, provider) ==
  [callSid |-> callResult.callSid, status |-> callResult.status,
   customerPhone |-> customerPhone, provider |-> provider, duration |-> Undefined]

\* server.js:346-366, 483-504  the service has answered or thrown
\* (st: the store after the session data of the call was written)
callInitiated(st, route, sessionId, customerPhone, provider, callResult) ==
  IF callResult.kind = "success"
    THEN [store |-> setCallInfo(st, sessionId,
                      Some(callInfoOf(callResult, customerPhone, provider))),
          handled |-> Called(route, sessionId, 200, callResult.kind)]
  ELSE IF callResult.kind = "failure"
    THEN [store |-> st, handled |-> Called(route, sessionId, 400, callResult.kind)]
  ELSE [store |-> st, handled |-> Called(route, sessionId, 500, callResult.kind)]

\* server.js:339-342, 475-478  the session data of the call is written before
\* the service is asked
callPrepared(st, sessionId, customerPhone, customerName, propertyInfo) ==
  updateConversationState(
    setCustomerInfo(
      setPropertyInfo(st, sessionId, propertyInfo),
      sessionId, Some([name |-> customerName, phone |-> customerPhone])),
    sessionId, "initiating_voice_call")

\* server.js:329-373  POST /exotel/initiate-call with sessionId,
\* customerPhone and propertyUrl given
exotelInitiateCall(st, sessionId, customerPhone, customerName, propertyInfo, callResult) ==
  callInitiated(callPrepared(st, sessionId, customerPhone, customerName, propertyInfo),
                "exotel/initiate-call", sessionId, customerPhone, Undefined, callResult)

\* server.js:465-510  POST /twilio/initiate-call with sessionId and
\* customerPhone given
twilioInitiateCall(st, sessionId, customerPhone, customerName, propertyInfo, callResult) ==
  callInitiated(callPrepared(st, sessionId, customerPhone, customerName, propertyInfo),
                "twilio/initiate-call", sessionId, customerPhone, Some("twilio"), callResult)

\* a status webhook that ends the call on every status but 'in-progress'
applyCallStatus_EndsUnlessInProgress(st, sessionId, status) ==
  IF status = "in-progress"
    THEN updateConversationState(st, sessionId, "voice_call_active")
    ELSE updateConversationState(st, sessionId, "call_ended")

\* server.js:421-425, 599-603  the conversation state follows the call status
applyCallStatus(st, sessionId, status) ==
  IF status = "in-progress"
    THEN updateConversationState(st, sessionId, "voice_call_active")
  ELSE IF status = "completed" \/ status = "failed"
    THEN updateConversationState(st, sessionId, "call_ended")
  ELSE st

\* server.js:413-418  the status is written into the callInfo of a session
\* that has one
exotelCallInfoStatus(st, sessionId, status) ==
  IF get(st, sessionId).callInfo # <<>>
    THEN setCallInfo(st, sessionId,
           Some([get(st, sessionId).callInfo[1] EXCEPT !.status = status]))
    ELSE st

\* server.js:591-597  the same, with the duration
twilioCallInfoStatus(st, sessionId, status, duration) ==
  IF get(st, sessionId).callInfo # <<>>
    THEN setCallInfo(st, sessionId,
           Some([get(st, sessionId).callInfo[1] EXCEPT !.status = status,
                                                       !.duration = duration]))
    ELSE st

\* server.js:404-433  POST /exotel/call-status: sessionId is CustomField1 of
\* the body, which may lack it
exotelCallStatus(st, sessionId, status) ==
  IF Given(sessionId)
    THEN [store |-> applyCallStatus(exotelCallInfoStatus(st, sessionId[1], status),
                                    sessionId[1], status),
          handled |-> Called("exotel/call-status", sessionId, 200, status)]
    ELSE [store |-> st,
          handled |-> Called("exotel/call-status", sessionId, 200, status)]

\* server.js:580-611  POST /twilio/status-webhook/:sessionId
twilioStatusWebhook(st, sessionId, status, duration) ==
  [store |-> applyCallStatus(twilioCallInfoStatus(st, sessionId, status, duration),
                             sessionId, status),
   handled |-> Called("twilio/status-webhook", Some(sessionId), 200, status)]

\* the statuses a provider reports
CallStatuses == { "ringing", "in-progress", "completed", "failed", "busy" }

\* propertyInfo of a call request
CallProperties == { Undefined, Some(SeaView) }

\* POST /exotel/initiate-call, as one of at most bound requests
InitiateExotelCall(sessionId, bound) ==
  /\ Len(trace) < bound
  /\ \E propertyInfo \in CallProperties, callResult \in ExotelOutcomes :
       Done(exotelInitiateCall(store, sessionId, "+911", Some("Asha"), propertyInfo, callResult))

\* POST /twilio/initiate-call
InitiateTwilioCall(sessionId, bound) ==
  /\ Len(trace) < bound
  /\ \E propertyInfo \in CallProperties, callResult \in TwilioOutcomes :
       Done(twilioInitiateCall(store, sessionId, "+911", Some("Asha"), propertyInfo, callResult))

\* POST /exotel/call-status
ExotelCallStatus(bound) ==
  /\ Len(trace) < bound
  /\ \E sessionId \in {Undefined, Some("s1")}, status \in CallStatuses :
       Done(exotelCallStatus(store, sessionId, status))

\* POST /twilio/status-webhook/:sessionId
TwilioStatusWebhook(sessionId, bound) ==
  /\ Len(trace) < bound
  /\ \E status \in CallStatuses, duration \in {Undefined, Some("42")} :
       Done(twilioStatusWebhook(store, sessionId, status, duration))

\* a chat turn that fills the requirements and the history of the session
ChatBeforeCall(sessionId, bound) ==
  /\ Len(trace) < bound
  /\ Chat(sessionId, UtterCompleteBuy, "rule", <<>>, <<>>)

\* the life of a call: it is requested of either provider, the provider
\* reports its status, the customer chats
NextCalls ==
  \/ ChatBeforeCall("s1", MaxCallEvents)
  \/ InitiateExotelCall("s1", MaxCallEvents)
  \/ InitiateTwilioCall("s1", MaxCallEvents)
  \/ ExotelCallStatus(MaxCallEvents)
  \/ TwilioStatusWebhook("s1", MaxCallEvents)

SpecCalls == Init /\ [][NextCalls]_vars

----------------------------------------------------------------------------
(* part_002: extractRequirements on its own                                *)

\* the requirements an utterance meets: none, a property type, or a city
\* and a budget
SlotRequirements ==
  { EmptyRequirements,
    [EmptyRequirements EXCEPT !.propertyType = Some(<<"b","u","y">>)],
    [EmptyRequirements EXCEPT !.city = Some(<<"P","u","n","e">>), !.budget = Some(<<"5","0"," ","L","a","k","h">>)] }

\* the record of a call of extractRequirements
Extracted(userMessage, currentRequirements) ==
  [endpoint |-> "extracted", text |-> userMessage,
   currentRequirements |-> currentRequirements,
   requirements |-> extractRequirements(userMessage, currentRequirements)]

\* extractRequirements is called, as one of at most bound calls
Extract(bound) ==
  /\ Len(trace) < bound
  /\ \E userMessage \in SlotUtterances, currentRequirements \in SlotRequirements :
       trace' = Append(trace, Extracted(userMessage, currentRequirements))
  /\ UNCHANGED <<store, inflight, redis, pending, connections, sockets, timers>>

NextSlots ==
  \/ Extract(MaxExtractCalls)

SpecSlots == Init /\ [][NextSlots]_vars

----------------------------------------------------------------------------
(* part_002: the messages forwarded to the completion service              *)

\* part_002:10-30  the system prompt, whose text is not spelled out
systemPrompt == <<"systemPrompt">>

\* part_002:41-50  the messages of a completion request: the prompt, the
\* conversation history, the requirements gathered, the utterance.  The
\* content of the third part stands for
\* `Current user requirements gathered: ${JSON.stringify(userRequirements)}`.
completionMessages(userMessage, conversationHistory, userRequirements) ==
  <<[role |-> "system", content |-> systemPrompt]>>
    \o conversationHistory
    \o <<[role |-> "system", content |-> [gathered |-> userRequirements]],
         [role |-> "user", content |-> userMessage]>>

\* part_002:33-39  no request is built without an API key
forwardedMessages(completion, userMessage, conversationHistory, userRequirements) ==
  IF completion.kind = "unconfigured" THEN <<>>
  ELSE completionMessages(userMessage, conversationHistory, userRequirements)

\* the record of a chat turn with the messages of its completion request:
\* server.js:105-107 passes the history read after the utterance was added
\* to it (server.js:49-50) and the updated requirements
\* (st: the store before the turn)
Forwarded(st, sessionId, text, completion, handled) ==
  [endpoint |-> "forwarded", sessionId |-> sessionId, text |-> text,
   completion |-> completion.kind, handled |-> handled,
   messages |-> forwardedMessages(completion, text,
                  getConversationHistory(
                    addToConversationHistory(st, sessionId, "user", text), sessionId),
                  handled.requirements)]

\* server.js:37-155  a chat turn with the request it sends, as one of at
\* most bound turns
ChatForwarded(sessionId, texts, bound) ==
  /\ Len(trace) < bound
  /\ \E text \in texts, completion \in CompletionOutcomes :
       /\ store' = chatTurn(store, sessionId, text, completionStrategy(completion),
                            completion.reply, <<>>).store
       /\ trace' = Append(trace,
                     Forwarded(store, sessionId, text, completion,
                       chatTurn(store, sessionId, text, completionStrategy(completion),
                                completion.reply, <<>>).handled))
  /\ UNCHANGED <<inflight, redis, pending, connections, sockets, timers>>

\* chat turns of one session with their completion requests
NextForward ==
  \/ ChatForwarded("s1", HistoryUtterances, MaxForwardTurns)

SpecForward == Init /\ [][NextForward]_vars

----------------------------------------------------------------------------
(* server.js: DELETE /session/:id while a /chat turn is suspended          *)

\* DELETE /session/:id (server.js:322-326) is handled while a /chat turn of
\* the session waits for its reply or its search results
ClearInFlight(sessionId, bound) ==
  /\ inflight[sessionId] # Undefined
  /\ Len(trace) + Cardinality(InFlight) < bound
  /\ store' = clear(store, sessionId)
  /\ trace' = Append(trace,
                Handled("clear", sessionId, <<>>, EmptyRequirements,
                  EmptyRequirements, EmptyRequirements, "none", <<>>,
                  Undefined, <<>>))
  /\ UNCHANGED <<inflight, redis, pending, connections, sockets, timers>>

\* /chat turns of one session, and clears that arrive while a turn is
\* suspended
NextClearing ==
  \/ BeginChat("s1", FeedbackUtterances, MaxClearingOps)
  \/ ResumeChatRule("s1")
  \/ ResumeChatAi("s1")
  \/ FinishSearch("s1")
  \/ ClearInFlight("s1", MaxClearingOps)

SpecClearing == Init /\ [][NextClearing]_vars

----------------------------------------------------------------------------
(* websocketHandler.js (part_004:249-622): the voice streams.  An audio    *)
(* message is handled in one step; lastActivity and the audio sent are not *)
(* represented.                                                            *)

\* part_004:576-583  what simulateSpeechToText may return
SpokenInterested == <<"Y","e","s",","," ","I","'","m"," ","i","n","t","e","r","e","s","t","e","d"," ","i","n"," ","t","h","e"," ","p","r","o","p","e","r","t","y">>
SpokenLocation == <<"C","a","n"," ","y","o","u"," ","t","e","l","l"," ","m","e"," ","m","o","r","e"," ","a","b","o","u","t"," ","t","h","e"," ","l","o","c","a","t","i","o","n","?">>
SpokenPrice == <<"W","h","a","t","'","s"," ","t","h","e"," ","p","r","i","c","e","?">>
SpokenVisit == <<"I","'","d"," ","l","i","k","e"," ","t","o"," ","s","c","h","e","d","u","l","e"," ","a"," ","v","i","s","i","t">>
SpokenNotInterested == <<"N","o","t"," ","i","n","t","e","r","e","s","t","e","d",","," ","t","h","a","n","k"," ","y","o","u">>
SpokenLater == <<"C","a","n"," ","y","o","u"," ","c","a","l","l"," ","b","a","c","k"," ","l","a","t","e","r","?">>
SpokenResponses ==
  { SpokenInterested, SpokenLocation, SpokenPrice, SpokenVisit,
    SpokenNotInterested, SpokenLater }

\* what the customers of the streams are heard to say
StreamUtterances == { SpokenVisit, SpokenNotInterested }

\* the record of an event of a voice stream: the socket it came from, the
\* call it was handled under, the session it was applied to (if any) and the
\* socket that was sent a message (if any)
Streamed(ws, event, callSid, sessionId, sentTo) ==
  [endpoint |-> "stream", ws |-> ws, event |-> event, callSid |-> callSid,
   sessionId |-> sessionId, sentTo |-> sentTo]

\* part_004:290-292  url.searchParams.get(name) || fallback
paramOr(param, fallback) == IF Given(param) THEN param[1] ELSE fallback

\* part_004:297-304  the connection info stored for a call
connectionInfo(ws, sessionId, callSid) ==
  [ws |-> ws, sessionId |-> sessionId, callSid |-> callSid, connected |-> TRUE]

\* part_004:549-558  sendMessage(callSid, message): the socket that is sent
\* the message
sendMessage(conns, callSid) ==
  IF conns[callSid] # Undefined /\ conns[callSid][1].connected
    THEN Some(conns[callSid][1].ws)
    ELSE Undefined

\* a disconnection that empties the registry
handleDisconnection_All(conns, callSid) == [c \in DOMAIN conns |-> Undefined]

\* part_004:537-543  handleDisconnection(callSid)
handleDisconnection(conns, callSid) == [conns EXCEPT ![callSid] = Undefined]

\* part_004:387-395  handleCallStart(callSid, message)
handleCallStart(st, conns, callSid) ==
  IF conns[callSid] # Undefined
    THEN updateConversationState(st, conns[callSid][1].sessionId, "voice_call_active")
    ELSE st

\* part_004:510-515  handleCallEnd(callSid, message), the session
handleCallEnd(st, conns, callSid) ==
  IF conns[callSid] # Undefined
    THEN updateConversationState(st, conns[callSid][1].sessionId, "call_ended")
    ELSE st

\* part_004:438-441  the history read before the utterance is added: the
\* array of the record, which the addition pushes onto, or the empty array
\* of a fresh default session
historyGiven(st, sessionId, customerMessage) ==
  IF st[sessionId] = Undefined
    THEN <<>>
    ELSE Append(st[sessionId][1].conversationHistory,
                [role |-> "user", content |-> customerMessage])

\* part_004:440-441  session.propertyInfo || {}, customerInfo.name
propertyInfoGiven(session) ==
  IF session.propertyInfo = <<>> THEN NoDetails ELSE session.propertyInfo[1]
customerNameGiven(session) ==
  IF session.customerInfo = <<>> THEN Undefined ELSE session.customerInfo[1].name

\* part_004:446-452  the answer of the sales agent to a customer message
customerAnswer(st, sessionId, customerMessage, strategy, aiReply) ==
  SalesAgent_generateResponse(strategy, aiReply, customerMessage,
    historyGiven(st, sessionId, customerMessage),
    propertyInfoGiven(get(st, sessionId)), customerNameGiven(get(st, sessionId)))

\* part_004:444, 457  the utterance and the answer are added to the history
customerExchange(st, sessionId, customerMessage, agentResult) ==
  addToConversationHistory(
    addToConversationHistory(st, sessionId, "user", customerMessage),
    sessionId, "assistant", agentResult.response)

\* part_004:431-471  processCustomerMessage(callSid, customerMessage): the
\* store, and whether endCall is scheduled
processCustomerMessage(st, conns, callSid, customerMessage, strategy, aiReply) ==
  IF conns[callSid] = Undefined
    THEN [store |-> st, callEnded |-> FALSE]
    ELSE [store |-> customerExchange(st, conns[callSid][1].sessionId, customerMessage,
                      customerAnswer(st, conns[callSid][1].sessionId, customerMessage,
                                     strategy, aiReply)),
          callEnded |-> customerAnswer(st, conns[callSid][1].sessionId, customerMessage,
                                       strategy, aiReply).callEnded]

\* the session of the connection registered for a call, if there is one
sessionOf(conns, callSid) ==
  IF conns[callSid] # Undefined THEN Some(conns[callSid][1].sessionId) ELSE Undefined

\* part_004:288-326  handleConnection(ws, req): a socket is accepted with the
\* sessionId and the callSid of its URL
Connect(ws, bound) ==
  /\ Len(trace) < bound
  /\ sockets[ws] = Undefined
  /\ \E sessionId \in { Some("s1"), Some("s2") }, callSid \in { Undefined, Some("CA1") } :
       /\ connections' = [connections EXCEPT ![paramOr(callSid, "unknown")] =
            Some(connectionInfo(ws, paramOr(sessionId, "default"), paramOr(callSid, "unknown")))]
       /\ sockets' = [sockets EXCEPT ![ws] =
            Some([sessionId |-> paramOr(sessionId, "default"),
                  callSid |-> paramOr(callSid, "unknown")])]
       /\ trace' = Append(trace, Streamed(ws, "connection", paramOr(callSid, "unknown"),
                            Undefined, Some(ws)))
  /\ UNCHANGED <<store, inflight, redis, pending, timers>>

\* part_004:333-371  handleMessage(callSid, data), event 'connected': the
\* greeting is sent (part_004:376-382)
MessageConnected(ws, bound) ==
  /\ Len(trace) < bound
  /\ sockets[ws] # Undefined
  /\ trace' = Append(trace, Streamed(ws, "connected", sockets[ws][1].callSid, Undefined,
                       sendMessage(connections, sockets[ws][1].callSid)))
  /\ UNCHANGED <<store, inflight, redis, pending, connections, sockets, timers>>

\* event 'start'
MessageStart(ws, bound) ==
  /\ Len(trace) < bound
  /\ sockets[ws] # Undefined
  /\ store' = handleCallStart(store, connections, sockets[ws][1].callSid)
  /\ trace' = Append(trace, Streamed(ws, "start", sockets[ws][1].callSid,
                       sessionOf(connections, sockets[ws][1].callSid), Undefined))
  /\ UNCHANGED <<inflight, redis, pending, connections, sockets, timers>>

\* event 'media' with a payload (part_004:402-423): the audio is
\* transcribed, the sales agent answers, and endCall is scheduled if the
\* agent ended the call
MessageMedia(ws, bound) ==
  /\ Len(trace) < bound
  /\ sockets[ws] # Undefined
  /\ \E customerMessage \in StreamUtterances, answer \in { [strategy |-> "rule", aiReply |-> <<>>], [strategy |-> "ai", aiReply |-> AgentReplyGoodDay] } :
       /\ store' = processCustomerMessage(store, connections, sockets[ws][1].callSid,
                     customerMessage, answer.strategy, answer.aiReply).store
       /\ timers' = IF processCustomerMessage(store, connections, sockets[ws][1].callSid,
                         customerMessage, answer.strategy, answer.aiReply).callEnded
                      THEN Append(timers, [callSid |-> sockets[ws][1].callSid, ws |-> ws])
                      ELSE timers
  /\ trace' = Append(trace, Streamed(ws, "media", sockets[ws][1].callSid,
                       sessionOf(connections, sockets[ws][1].callSid),
                       sendMessage(connections, sockets[ws][1].callSid)))
  /\ UNCHANGED <<inflight, redis, pending, connections, sockets>>

\* event 'stop' (part_004:506-523)
MessageStop(ws, bound) ==
  /\ Len(trace) < bound
  /\ sockets[ws] # Undefined
  /\ store' = handleCallEnd(store, connections, sockets[ws][1].callSid)
  /\ connections' = handleDisconnection(connections, sockets[ws][1].callSid)
  /\ trace' = Append(trace, Streamed(ws, "stop", sockets[ws][1].callSid,
                       sessionOf(connections, sockets[ws][1].callSid), Undefined))
  /\ UNCHANGED <<inflight, redis, pending, sockets, timers>>

\* part_004:311-314  the socket is closed
Close(ws, bound) ==
  /\ Len(trace) < bound
  /\ sockets[ws] # Undefined
  /\ connections' = handleDisconnection(connections, sockets[ws][1].callSid)
  /\ sockets' = [sockets EXCEPT ![ws] = Undefined]
  /\ trace' = Append(trace, Streamed(ws, "close", sockets[ws][1].callSid, Undefined, Undefined))
  /\ UNCHANGED <<store, inflight, redis, pending, timers>>

\* part_004:316-319  the socket reports an error
Error(ws, bound) ==
  /\ Len(trace) < bound
  /\ sockets[ws] # Undefined
  /\ connections' = handleDisconnection(connections, sockets[ws][1].callSid)
  /\ trace' = Append(trace, Streamed(ws, "error", sockets[ws][1].callSid, Undefined, Undefined))
  /\ UNCHANGED <<store, inflight, redis, pending, sockets, timers>>

\* part_004:563-569  endCall(callSid), two seconds after the agent ended the
\* call: the socket registered for the call is asked to close, and the call
\* is disconnected
EndCall(bound) ==
  /\ Len(trace) < bound
  /\ timers # <<>>
  /\ connections' = handleDisconnection(connections, timers[1].callSid)
  /\ timers' = Tail(timers)
  /\ trace' = Append(trace, Streamed(timers[1].ws, "endCall", timers[1].callSid, Undefined, Undefined))
  /\ UNCHANGED <<store, inflight, redis, pending, sockets>>

\* POST /twilio/status-webhook/:sessionId for a call that is answered or
\* over
StreamStatusWebhook(sessionId, bound) ==
  /\ Len(trace) < bound
  /\ \E status \in { "in-progress", "completed" } :
       Done(twilioStatusWebhook(store, sessionId, status, Undefined))

\* two voice streams and the status webhook of the call of one of them
NextStreams ==
  \/ \E ws \in SocketIds : Connect(ws, MaxStreamEvents)
  \/ \E ws \in SocketIds : MessageConnected(ws, MaxStreamEvents)
  \/ \E ws \in SocketIds : MessageStart(ws, MaxStreamEvents)
  \/ \E ws \in SocketIds : MessageMedia(ws, MaxStreamEvents)
  \/ \E ws \in SocketIds : MessageStop(ws, MaxStreamEvents)
  \/ \E ws \in SocketIds : Close(ws, MaxStreamEvents)
  \/ \E ws \in SocketIds : Error(ws, MaxStreamEvents)
  \/ EndCall(MaxStreamEvents)
  \/ StreamStatusWebhook("s1", MaxStreamEvents)

SpecStreams == Init /\ [][NextStreams]_vars


----------------------------------------------------------------------------
(* Properties                                                              *)

\* the chat turns handled so far
ChatTurns == { i \in DOMAIN trace : trace[i].endpoint = "chat" }

\* propertyType, city and bhk are all set
AllSet(r) == Truthy(r.propertyType) /\ Truthy(r.city) /\ Truthy(r.bhk)

\* one of the five slots differs between two requirements records
SlotChanged(before, after) ==
  \E f \in {"propertyType", "city", "bhk", "budget", "locality"} :
    before[f] # after[f]

\* C1: a chat turn invokes the search only if the requirements it persisted
\* have propertyType, city and bhk set and confirmed true; a turn that leaves
\* complete but unconfirmed requirements invokes no search.
C1_ChatSearchOnlyWhenConfirmed ==
  \A i \in ChatTurns :
    trace[i].searched # Undefined
      => AllSet(trace[i].persisted) /\ trace[i].persisted.confirmed = Some(TRUE)

\* a turn left complete, unconfirmed requirements and a reply with a search
\* cue without searching, and a later turn searched
C1_Witness ==
  \E i, j \in ChatTurns :
    /\ i < j
    /\ AllSet(trace[i].persisted)
    /\ ~IsTrue(trace[i].persisted.confirmed)
    /\ searchKeywords(trace[i].replyText)
    /\ trace[i].searched = Undefined
    /\ trace[j].searched # Undefined

\* C2: every request that invokes the search (a chat turn or a feedback
\* submission) does so only when shouldSearchProperties holds of the
\* session's requirements.
C2_EverySearchGated ==
  \A i \in DOMAIN trace :
    trace[i].searched # Undefined
      => AllSet(trace[i].persisted) /\ trace[i].persisted.confirmed = Some(TRUE)

\* the utterances of the end-to-end scenario, in order
Script == <<UtterWantToBuy, UtterMumbai, UtterBhk, UtterYes>>

\* the first n turns of the run are the first n turns of the scenario
Followed(n) ==
  /\ Len(trace) >= n
  /\ \A i \in 1..n : trace[i].endpoint = "chat" /\ trace[i].text = Script[i]

\* the turns among the first n that invoked the search
Searches(n) == { i \in 1..n : trace[i].searched # Undefined }

\* "buy 2BHK Mumbai site:housing.com"
ScenarioQuery ==
  <<"b","u","y"," ","2","B","H","K"," ","M","u","m","b","a","i"," ","s","i","t","e",":","h","o","u","s","i","n","g",".","c","o","m">>

\* what the scenario yields whatever produces the replies: complete
\* requirements waiting for the confirmation and no search after "2BHK",
\* confirmed requirements after "yes", and no search but the one of the
\* "yes" turn
ScenarioFlags ==
  /\ Followed(3)
       => /\ AllSet(trace[3].persisted)
          /\ trace[3].persisted.waitingForConfirmation = Some(TRUE)
          /\ Searches(3) = {}
  /\ Followed(4)
       => /\ trace[4].persisted.confirmed = Some(TRUE)
          /\ trace[4].persisted.waitingForConfirmation = Some(FALSE)
          /\ Searches(4) \subseteq {4}
          /\ \A i \in Searches(4) : trace[i].searched = Some(ScenarioQuery)

\* C3 (as stated): "I want to buy", "Mumbai", "2BHK" leave complete
\* requirements with waitingForConfirmation true and no search; "yes" yields
\* confirmed true and waitingForConfirmation false; the search is invoked
\* exactly once in the scenario, with "buy 2BHK Mumbai site:housing.com".
C3_ScenarioSearchesOnce ==
  /\ ScenarioFlags
  /\ Followed(4) => Searches(4) = {4}

\* C3 (amended): the same, the search being invoked exactly once when the
\* reply of the "yes" turn is the rule-based one; a reply of the completion
\* service decides by its wording whether that turn searches.
C3_ScenarioSearchesOnceRuleBased ==
  /\ ScenarioFlags
  /\ Followed(4) /\ trace[4].strategy = "rule" => Searches(4) = {4}

\* the scenario has run with rule-based replies and has searched in its
\* fourth turn
C3_Witness ==
  /\ Followed(4)
  /\ \A i \in 1..4 : trace[i].strategy = "rule"
  /\ trace[4].searched = Some(ScenarioQuery)

C5_ChangeWhileWaitingResets ==
  \A i \in ChatTurns :
    /\ IsTrue(trace[i].currentRequirements.waitingForConfirmation)
    /\ SlotChanged(trace[i].currentRequirements, trace[i].persisted)
    => trace[i].persisted.confirmed = Some(FALSE)

\* C6: a turn that starts with confirmed true and in which a slot value
\* changes resets confirmed to false.
C6_ChangeAfterConfirmationResets ==
  \A i \in ChatTurns :
    /\ IsTrue(trace[i].currentRequirements.confirmed)
    /\ SlotChanged(trace[i].currentRequirements, trace[i].persisted)
    => ~IsTrue(trace[i].persisted.confirmed)

\* C7: a turn that starts with waitingForConfirmation true and whose
\* utterance has a revision cue and no affirmative cue ends with confirmed
\* false, and with waitingForConfirmation true exactly when propertyType,
\* city and bhk are all set.
C7_RevisionResetsAndRechecks ==
  \A i \in ChatTurns :
    /\ IsTrue(trace[i].currentRequirements.waitingForConfirmation)
    /\ hasRevisionCue(toLowerCase(trace[i].text))
    /\ ~hasAffirmativeCue(toLowerCase(trace[i].text))
    => /\ trace[i].persisted.confirmed = Some(FALSE)
       /\ IsTrue(trace[i].persisted.waitingForConfirmation) <=> AllSet(trace[i].persisted)

\* a waiting turn with a revision cue only ended unconfirmed and waiting
C7_Witness ==
  \E i \in ChatTurns :
    /\ IsTrue(trace[i].currentRequirements.waitingForConfirmation)
    /\ hasRevisionCue(toLowerCase(trace[i].text))
    /\ ~hasAffirmativeCue(toLowerCase(trace[i].text))
    /\ trace[i].persisted.confirmed = Some(FALSE)
    /\ trace[i].persisted.waitingForConfirmation = Some(TRUE)

\* the slots and the waiting flag are those of
\* {propertyType: buy, city: Pune, bhk: 2BHK, waitingForConfirmation: true}
IsPuneWaiting(r) ==
  /\ r.propertyType = Some(<<"b","u","y">>)
  /\ r.city = Some(<<"P","u","n","e">>)
  /\ r.bhk = Some(<<"2","B","H","K">>)
  /\ r.budget = Undefined
  /\ r.locality = Undefined
  /\ r.waitingForConfirmation = Some(TRUE)

\* C8: from {propertyType: buy, city: Pune, bhk: 2BHK,
\* waitingForConfirmation: true}, a turn whose utterance names Mumbai
\* changes city to Mumbai and, the flags having been reset and completeness
\* checked again, ends unconfirmed with waitingForConfirmation true.
C8_NamingMumbaiChangesCity ==
  \A i \in ChatTurns :
    /\ IsPuneWaiting(trace[i].currentRequirements)
    /\ includes(toLowerCase(trace[i].text), <<"m","u","m","b","a","i">>)
    => /\ trace[i].persisted.city = Some(<<"M","u","m","b","a","i">>)
       /\ ~IsTrue(trace[i].persisted.confirmed)
       /\ trace[i].persisted.waitingForConfirmation = Some(TRUE)

\* the confirmation question for requirements r
ConfirmationQuestion(r) ==
  ConfirmPrefix \o generateRequirementsSummary(r) \o ConfirmSuffix

\* C9: on the turn in which propertyType, city and bhk first become all set
\* while confirmed is false, waitingForConfirmation becomes true and the
\* rule-based reply is the confirmation question.
C9_CompletionAsksForConfirmation ==
  \A i \in ChatTurns :
    /\ ~AllSet(trace[i].currentRequirements)
    /\ AllSet(trace[i].persisted)
    /\ ~IsTrue(trace[i].persisted.confirmed)
    => /\ trace[i].persisted.waitingForConfirmation = Some(TRUE)
       /\ trace[i].strategy = "rule"
            => trace[i].replyText = ConfirmationQuestion(trace[i].persisted)

\* the flags of a requirements record: never both true, and both not true
\* while a core slot is missing
FlagsConsistent(r) ==
  /\ ~(IsTrue(r.confirmed) /\ IsTrue(r.waitingForConfirmation))
  /\ ~AllSet(r) => ~IsTrue(r.confirmed) /\ ~IsTrue(r.waitingForConfirmation)

\* C10: in every requirements record persisted by chat turns, confirmed and
\* waitingForConfirmation are never both true, and both are not true as
\* long as propertyType, city or bhk is missing.
C10_FlagsConsistent ==
  /\ \A i \in ChatTurns : FlagsConsistent(trace[i].persisted)
  /\ \A id \in SessionIds : FlagsConsistent(getRequirements(store, id))

\* a session went from incomplete requirements to waiting to confirmed
C10_Witness ==
  \E i, j, k \in ChatTurns :
    /\ i < j /\ j < k
    /\ ~AllSet(trace[i].persisted)
    /\ IsTrue(trace[j].persisted.waitingForConfirmation)
    /\ IsTrue(trace[k].persisted.confirmed)
    /\ getRequirements(store, trace[k].sessionId) = trace[k].persisted

\* the reply contains one of the cues search/find/looking/properties, in any
\* letter case
HasCue(reply) ==
  \E cue \in { <<"s","e","a","r","c","h">>, <<"f","i","n","d">>,
               <<"l","o","o","k","i","n","g">>,
               <<"p","r","o","p","e","r","t","i","e","s">> } :
    includes(toLowerCase(reply), cue)

\* C11: a chat turn invokes the search if and only if propertyType, city and
\* bhk are set and confirmed is true in the turn's requirements and the reply
\* just generated contains one of the cues; a confirmed turn whose reply has
\* no cue performs no search.
C11_SearchIffGateAndCue ==
  \A i \in ChatTurns :
    trace[i].searched # Undefined
      <=> /\ AllSet(trace[i].requirements)
          /\ trace[i].requirements.confirmed = Some(TRUE)
          /\ HasCue(trace[i].replyText)

\* a confirmed turn whose reply has no cue did not search, and a confirmed
\* turn whose reply has a capitalised cue did
C11_Witness ==
  \E i, j \in ChatTurns :
    /\ IsTrue(trace[i].requirements.confirmed)
    /\ ~HasCue(trace[i].replyText)
    /\ trace[i].searched = Undefined
    /\ IsTrue(trace[j].requirements.confirmed)
    /\ trace[j].replyText = AiReplyCapital
    /\ trace[j].searched # Undefined

\* the request handled by the step, if the step handles one
Acted == Len(trace') = Len(trace) + 1

\* the search log of a session
searchLog(st, id) == get(st, id).propertySearchHistory

\* a step changes the search log of a session only by appending the one
\* entry of the search its request invoked, or by clearing the session
LogStep ==
  \A id \in SessionIds :
    IF Acted /\ trace'[Len(trace')].sessionId = id
      THEN LET h == trace'[Len(trace')]
           IN  IF h.endpoint = "clear" THEN searchLog(store', id) = <<>>
               ELSE IF h.searched # Undefined
                 THEN searchLog(store', id) =
                        Append(searchLog(store, id),
                               [query |-> h.searched[1], results |-> h.links])
               ELSE searchLog(store', id) = searchLog(store, id)
      ELSE searchLog(store', id) = searchLog(store, id)

\* C12: each invocation of the search, from a chat turn or from negative
\* feedback, appends exactly one {query, results} entry to the session's
\* propertySearchHistory, also when the results are empty, and nothing but
\* clear removes or changes an entry of the log.
C12_SearchLogAppendOnly == [][LogStep]_vars

\* a chat turn and a feedback submission have searched, one of them with
\* empty results, and the log holds their two entries in order
C12_Witness ==
  /\ Len(trace) = 3
  /\ trace[2].endpoint = "chat" /\ trace[2].searched # Undefined
  /\ trace[3].endpoint = "feedback" /\ trace[3].searched # Undefined
  /\ trace[3].links = <<>>
  /\ searchLog(store, "s1") =
       << [query |-> trace[2].searched[1], results |-> trace[2].links],
          [query |-> trace[3].searched[1], results |-> <<>>] >>

\* a session with all fields at their defaults
IsDefaultSession(session) ==
  /\ \A f \in DOMAIN session.requirements : session.requirements[f] = <<>>
  /\ session.conversationHistory = <<>>
  /\ session.propertySearchHistory = <<>>
  /\ session.userFeedback = <<>>
  /\ session.currentState = "introduction"

\* the requests of session id handled after request i
After(i, id) == { j \in DOMAIN trace : j > i /\ trace[j].sessionId = id }

\* request k is a chat turn that made the requirements confirmed
ConfirmsAnew(k) ==
  /\ trace[k].endpoint = "chat"
  /\ AllSet(trace[k].persisted)
  /\ trace[k].persisted.confirmed = Some(TRUE)
  /\ ~IsTrue(trace[k].currentRequirements.confirmed)

\* an id without record reads as a default session, and the first request
\* after a clear finds no slots and no flags
ClearedReadsDefault ==
  /\ \A id \in SessionIds :
       store[id] = <<>> => IsDefaultSession(get(store, id))
  /\ \A i \in DOMAIN trace :
       trace[i].endpoint = "clear"
         => /\ store[trace[i].sessionId] = <<>> \/ After(i, trace[i].sessionId) # {}
            /\ \A j \in After(i, trace[i].sessionId) :
                 (\A k \in After(i, trace[i].sessionId) : j <= k)
                   => \A f \in DOMAIN trace[j].currentRequirements :
                        trace[j].currentRequirements[f] = <<>>

\* a search after a clear comes after a chat turn that confirmed anew
SearchAfterClearConfirmed(endpoints) ==
  \A i \in DOMAIN trace :
    trace[i].endpoint = "clear"
      => \A j \in After(i, trace[i].sessionId) :
           trace[j].endpoint \in endpoints /\ trace[j].searched # Undefined
             => \E k \in After(i, trace[i].sessionId) : k <= j /\ ConfirmsAnew(k)

\* C20: an id without stored record reads as a session with all fields at
\* their defaults; after clear(id) the next access observes such a session
\* again, and no search is invoked for the id before a chat turn has made
\* the requirements complete and confirmed anew.
C20_ClearedSessionStartsAnew ==
  /\ ClearedReadsDefault
  /\ SearchAfterClearConfirmed({"chat", "feedback"})

\* the five slots
Slots == {"propertyType", "budget", "city", "locality", "bhk"}

\* extraction keeps the slots of `slots` that are already filled
KeepsFilled(slots) ==
  \A i \in ChatTurns :
    \A f \in slots :
      Truthy(trace[i].currentRequirements[f])
        => extractRequirements(trace[i].text, trace[i].currentRequirements)[f]
             = trace[i].currentRequirements[f]

\* C13: extractRequirements never changes the value of a slot among
\* propertyType, budget, city, locality and bhk that is already set in the
\* current requirements, whatever the utterance.
C13_FirstWriteWins == KeepsFilled(Slots)

\* C14: extraction is idempotent: extracting an utterance again from the
\* result of its extraction changes nothing, for the utterance of every turn
\* and for every utterance on the requirements every session has reached.
C14_ExtractionIdempotent ==
  /\ \A i \in ChatTurns :
       LET once == extractRequirements(trace[i].text, trace[i].currentRequirements)
       IN  extractRequirements(trace[i].text, once) = once
  /\ \A id \in SessionIds, u \in ExtractUtterances :
       LET once == extractRequirements(u, getRequirements(store, id))
       IN  extractRequirements(u, once) = once

\* a turn's extraction replaced the locality of requirements that have a
\* city and no budget, and extracting its utterance again from the result
\* leaves the result as it is
C14_Witness ==
  \E i \in ChatTurns :
    LET cur  == trace[i].currentRequirements
        once == extractRequirements(trace[i].text, cur)
    IN  /\ Truthy(cur.locality) /\ once.locality # cur.locality
        /\ ~Truthy(cur.budget) /\ Truthy(cur.city)
        /\ extractRequirements(trace[i].text, once) = once

\* the entries appended to the history of the session by the chat turns
\* handled so far, in order: the utterance and the reply of each turn
Appended ==
  [k \in 1..(2 * Len(trace)) |->
     IF k % 2 = 1
       THEN [role |-> "user", content |-> trace[(k + 1) \div 2].text]
       ELSE [role |-> "assistant", content |-> trace[k \div 2].replyText]]

\* C15: after n appends to the conversation history of a chat session, the
\* stored history holds at most 10 entries and is exactly the most recent
\* min(n, 10) appended entries, in their original order.
C15_HistoryKeepsLastTen ==
  LET h == getConversationHistory(store, "s1")
      n == Len(Appended)
  IN  /\ Len(h) <= 10
      /\ Len(h) = IF n < 10 THEN n ELSE 10
      /\ \A k \in 1..Len(h) : h[k] = Appended[n - Len(h) + k]

\* twelve entries have been appended, and the history holds the last ten
C15_Witness ==
  /\ Len(Appended) = 12
  /\ Len(getConversationHistory(store, "s1")) = 10
  /\ getConversationHistory(store, "s1")[1] = Appended[3]
  /\ getConversationHistory(store, "s1")[10] = Appended[12]

\* the evaluations of the gate recorded so far
GateCalls == { i \in DOMAIN trace : trace[i].endpoint = "gate" }

\* propertyType, city and bhk all have a value
CoreSet(r) == r.propertyType # <<>> /\ r.city # <<>> /\ r.bhk # <<>>

\* C16: hasCompleteRequirements(r) is truthy exactly when propertyType, city
\* and bhk are all set, whatever budget, locality and the flags are;
\* shouldSearchProperties(r) is truthy exactly when that holds and confirmed
\* is true, so it is false whenever the three slots are set and confirmed is
\* false.
C16_GatePredicates ==
  \A i \in GateCalls :
    LET r == trace[i].requirements
    IN  /\ trace[i].complete <=> CoreSet(r)
        /\ trace[i].search <=> (CoreSet(r) /\ r.confirmed = <<TRUE>>)
        /\ CoreSet(r) /\ r.confirmed = <<FALSE>> => ~trace[i].search

\* the gate was evaluated on a record with the three slots, a budget and a
\* locality set, waiting and confirmed=false: complete, and no search
C16_Witness ==
  \E i \in GateCalls :
    LET r == trace[i].requirements
    IN  /\ CoreSet(r) /\ r.budget # <<>> /\ r.locality # <<>>
        /\ r.confirmed = <<FALSE>> /\ r.waitingForConfirmation = <<TRUE>>
        /\ trace[i].complete /\ ~trace[i].search
----------------------------------------------------------------------------
(* Sessions side by side                                                   *)

\* the store in which only the session id has a record, the one it had when
\* its turn began
Alone(id, before) == [k \in SessionIds |-> IF k = id THEN before ELSE Undefined]

\* the turn that session id ends in this step left the record, and gave the
\* response, of the same turn run without interruption on its own
EndsAsAlone(id) ==
  /\ Len(trace') = Len(trace) + 1
  /\ \A h \in { trace'[Len(trace')] } :
       \A alone \in { chatTurn(Alone(id, inflight[id][1].before), id, h.text,
                                h.strategy, h.replyText, h.links) } :
         /\ h = alone.handled
         /\ store'[id] = alone.store[id]

\* a step leaves alone the record of every session it is not a step of, and
\* a turn ends as if it had run alone
StepIsolated ==
  \A id \in SessionIds :
    /\ inflight'[id] = inflight[id] => store'[id] = store[id]
    /\ (inflight[id] # Undefined /\ inflight'[id] = Undefined) => EndsAsAlone(id)

\* C19: /chat turns of distinct sessions are independent: however their steps
\* interleave at the awaits, a step changes only the record of its own
\* session, and every turn leaves the record and gives the response that it
\* gives when it runs without interruption on that session alone.
C19_SessionsIndependent == [][StepIsolated]_vars

\* C19 witness: a turn of s1 waits for its search results while a turn of s2
\* waits for its reply, after a turn of s1 that has finished
C19_Witness ==
  /\ inflight["s1"] # Undefined /\ inflight["s1"][1].phase = "search"
  /\ inflight["s2"] # Undefined /\ inflight["s2"][1].phase = "reply"
  /\ \E i \in 1..Len(trace) : trace[i].sessionId = "s1"

----------------------------------------------------------------------------
(* The durable store                                                       *)

\* the calls of the method on the session that have written back, in order
SettledCalls(id, method) ==
  SelectSeq(trace, LAMBDA h : h.sessionId = id /\ h.call.method = method)

\* the stored history of the session holds the entry of every append that
\* has written back, in their order
KeepsAppends(id) ==
  /\ Len(RedisMemory_get(redis, id).conversationHistory)
       = Len(SettledCalls(id, "addToConversationHistory"))
  /\ \A i \in 1..Len(SettledCalls(id, "addToConversationHistory")) :
       RedisMemory_get(redis, id).conversationHistory[i].content
         = SettledCalls(id, "addToConversationHistory")[i].call.message

\* the stored requirements of the session are those of an update that has
\* written back, if there is one
KeepsUpdate(id) ==
  SettledCalls(id, "updateRequirements") # <<>> =>
    \E i \in 1..Len(SettledCalls(id, "updateRequirements")) :
      RedisMemory_get(redis, id).requirements
        = SettledCalls(id, "updateRequirements")[i].call.requirements

\* C17: read-modify-write calls of the durable store on one session are
\* atomic: once the calls that were issued have all written back, whether
\* they overlapped or not, the stored record holds the entry of every append
\* and the requirements of an update; no update is lost.
C17_NoLostUpdate ==
  pending = <<>> => \A id \in SessionIds : KeepsAppends(id) /\ KeepsUpdate(id)

\* the turns given to both stores
BothTurns == { i \in 1..Len(trace) : trace[i].endpoint = "both" }

\* both handlers answered the turn with the same requirements record
SameRequirements(i) ==
  trace[i].durable.requirements = trace[i].memory.requirements

\* both handlers took the same search decision in the turn
SameGating(i) ==
  (trace[i].durable.searched # Undefined) = (trace[i].memory.searched # Undefined)

\* C18: the in-memory store and the durable store are interchangeable behind
\* the /chat handler: given the same turns, after every turn the handler has
\* answered with the same requirements record and taken the same search
\* decision on both, and both stores hold the same requirements.
C18_StoresInterchangeable ==
  /\ \A i \in BothTurns : SameRequirements(i) /\ SameGating(i)
  /\ \A id \in SessionIds :
       store[id] # Undefined =>
         RedisMemory_get(redis, id).requirements = getRequirements(store, id)

\* the answers alone, whatever the stores hold
AnswersAgree == \A i \in BothTurns : SameRequirements(i)

\* the search decisions alone
GatingAgrees == \A i \in BothTurns : SameGating(i)

\* the durable store never holds requirements a turn has extracted
DurableKeepsDefault ==
  \A id \in SessionIds :
    RedisMemory_get(redis, id).requirements
      = RedisMemory_createDefaultSession.requirements

----------------------------------------------------------------------------
(* The search query                                                        *)

\* the words, each followed by a space but the last
RECURSIVE SpacedWords(_)
SpacedWords(words) ==
  IF words = <<>> THEN <<>>
  ELSE IF Tail(words) = <<>> THEN Head(words)
  ELSE Head(words) \o <<" ">> \o SpacedWords(Tail(words))

\* the values of the slots that are set, in the order of the query
PresentValues(r) ==
  LET ordered == <<r.propertyType, r.bhk, r.locality, r.city, r.budget>>
      present == SelectSeq(ordered, LAMBDA o : o # Undefined /\ o[1] # <<>>)
  IN  [i \in 1..Len(present) |-> present[i][1]]

\* " site:housing.com"
SiteSuffix == <<" ","s","i","t","e",":","h","o","u","s","i","n","g",".","c","o","m">>

\* C28: the search query is the values of the slots that are set, in the
\* order propertyType, bhk, locality, city, budget, separated by single
\* spaces, followed by " site:housing.com"; slots that are not set are left
\* out, and {buy, 2BHK, Mumbai} gives "buy 2BHK Mumbai site:housing.com".
C28_QueryInFixedOrder ==
  \A i \in 1..Len(trace) :
    trace[i].endpoint = "query" =>
      /\ trace[i].query = SpacedWords(PresentValues(trace[i].requirements)) \o SiteSuffix
      /\ ( /\ PresentValues(trace[i].requirements)
                = << <<"b","u","y">>, <<"2","B","H","K">>, <<"M","u","m","b","a","i">> >>
           => trace[i].query
                = <<"b","u","y"," ","2","B","H","K"," ","M","u","m","b","a","i">> \o SiteSuffix )

\* C28 witness: a query built from all five slots and a query built from
\* buy, 2BHK and Mumbai alone
C28_Witness ==
  /\ \E i \in 1..Len(trace) :
       /\ trace[i].endpoint = "query"
       /\ Len(PresentValues(trace[i].requirements)) = 5
  /\ \E i \in 1..Len(trace) :
       /\ trace[i].endpoint = "query"
       /\ trace[i].query
            = <<"b","u","y"," ","2","B","H","K"," ","M","u","m","b","a","i">> \o SiteSuffix

----------------------------------------------------------------------------
(* The refined query                                                       *)

\* the feedback submissions among the first i requests
FeedbacksUpTo(i) == Cardinality({ k \in 1..i : trace[k].endpoint = "feedback" })

\* one of the first n feedbacks of the session is negative and gives a
\* reason that mentions w1 or w2
Complained(id, n, w1, w2) ==
  \E k \in 1..n :
    LET f == getUserFeedback(store, id)[k]
    IN  /\ f.feedback \in { Dislike, NotInterested }
        /\ f.reason # Undefined
        /\ includes(toLowerCase(f.reason[1]), w1) \/ includes(toLowerCase(f.reason[1]), w2)

\* the tokens the claim adds for the first n feedbacks of the session
RefinementTokens(id, n) ==
  (IF Complained(id, n, <<"p","r","i","c","e">>, <<"e","x","p","e","n","s","i","v","e">>)
     THEN <<" ","a","f","f","o","r","d","a","b","l","e"," ","b","u","d","g","e","t">> ELSE <<>>)
  \o (IF Complained(id, n, <<"l","o","c","a","t","i","o","n">>, <<"a","r","e","a">>)
     THEN <<" ","p","r","i","m","e"," ","l","o","c","a","t","i","o","n"," ","c","e","n","t","r","a","l">> ELSE <<>>)
  \o (IF Complained(id, n, <<"s","m","a","l","l">>, <<"s","p","a","c","e">>)
     THEN <<" ","s","p","a","c","i","o","u","s"," ","l","a","r","g","e">> ELSE <<>>)

\* C29: the query issued after a negative feedback is the base query of the
\* session's requirements followed by "affordable budget" if a negative
\* feedback given so far mentions price or expensive, "prime location
\* central" if one mentions location or area, "spacious large" if one
\* mentions small or space, in this order and each at most once; reasons
\* given with a positive feedback add nothing.
C29_RefinedQueryStacksTokens ==
  \A i \in 1..Len(trace) :
    (trace[i].endpoint = "feedback" /\ trace[i].text \in { Dislike, NotInterested }) =>
      trace[i].searched =
        Some(generateSearchQuery(trace[i].requirements)
               \o RefinementTokens(trace[i].sessionId, FeedbacksUpTo(i)))

\* C29 witness: after a liked property whose reason mentions the price, a
\* disliked one whose reason mentions the area and the size: the refined
\* query carries the tokens of these two categories and no other
C29_Witness ==
  \E i \in 1..Len(trace) :
    /\ trace[i].endpoint = "feedback" /\ trace[i].text = Dislike
    /\ FeedbacksUpTo(i) = 2
    /\ getUserFeedback(store, "s1")[1].feedback = Like
    /\ getUserFeedback(store, "s1")[1].reason = Some(ReasonExpensive)
    /\ trace[i].searched =
         Some(generateSearchQuery(trace[i].requirements)
                \o <<" ","p","r","i","m","e"," ","l","o","c","a","t","i","o","n"," ","c","e","n","t","r","a","l">>
                \o <<" ","s","p","a","c","i","o","u","s"," ","l","a","r","g","e">>)

----------------------------------------------------------------------------
(* The introduction                                                        *)

\* request i is a /chat turn answered by the rule-based responder
RuleTurn(i) == trace[i].endpoint = "chat" /\ trace[i].strategy = "rule"

\* request i is the first /chat turn of its session since the session had no
\* record: every earlier turn of the session was followed by a clear
FirstTurn(i) ==
  /\ trace[i].endpoint = "chat"
  /\ \A k \in 1..(i - 1) :
       (trace[k].endpoint = "chat" /\ trace[k].sessionId = trace[i].sessionId) =>
         \E c \in (k + 1)..(i - 1) :
           trace[c].endpoint = "clear" /\ trace[c].sessionId = trace[i].sessionId

\* the rule-based reply of a first turn is the introduction
FirstTurnIntroduces ==
  \A i \in 1..Len(trace) :
    (RuleTurn(i) /\ FirstTurn(i)) => trace[i].replyText = ReplyIntro

\* the rule-based reply of a later turn is not the introduction
LaterTurnsDoNotIntroduce ==
  \A i \in 1..Len(trace) :
    (RuleTurn(i) /\ ~FirstTurn(i)) => trace[i].replyText # ReplyIntro

\* C30: with the rule-based strategy, the reply to the first /chat turn of a
\* fresh session is the fixed introduction, whatever the utterance, and no
\* later turn of the session returns the introduction.
C30_IntroductionFirstAndOnce == FirstTurnIntroduces /\ LaterTurnsDoNotIntroduce

\* no rule-based reply of /chat is the introduction
NeverIntroduces ==
  \A i \in 1..Len(trace) : RuleTurn(i) => trace[i].replyText # ReplyIntro

----------------------------------------------------------------------------
(* Collaborator failures                                                   *)

\* the turns recorded with the outcomes of their collaborators
ServedTurns == { i \in 1..Len(trace) : trace[i].endpoint = "served" }

\* the completion service was not configured or failed in turn i
NoCompletion(i) == trace[i].completion.kind \in { "unconfigured", "fails" }

\* turn i called the search service
Searched(i) == trace[i].handled.searched # Undefined

\* C22: when the completion service is not configured or fails, the reply of
\* the turn is the rule-based reply for the same utterance and requirements;
\* when the search of a turn fails, the turn returns the local fallback
\* links; such a turn completes like any other, and a search it runs is
\* logged.
C22_CollaboratorFailureFallsBack ==
  \A i \in ServedTurns :
    /\ NoCompletion(i) =>
         trace[i].handled.replyText
           = getFallbackResponse(trace[i].handled.text, trace[i].handled.requirements)
    /\ (Searched(i) /\ trace[i].search.kind = "fails") =>
         trace[i].handled.links = FallbackLinks
    /\ (Searched(i) /\ trace[i].search.kind = "unconfigured") =>
         trace[i].handled.links = MockLinks
    /\ trace[i].handled.replyText # <<>>
    /\ (i = Len(trace) /\ Searched(i)) =>
         /\ getConversationHistory(store, trace[i].sessionId)
              [Len(getConversationHistory(store, trace[i].sessionId))].content
              = trace[i].handled.replyText
         /\ get(store, trace[i].sessionId).propertySearchHistory
              [Len(get(store, trace[i].sessionId).propertySearchHistory)].results
              = trace[i].handled.links

\* C22 witness: a turn whose completion request and search request both
\* failed, and which searched
C22_Witness ==
  \E i \in ServedTurns :
    /\ trace[i].completion.kind = "fails"
    /\ trace[i].search.kind = "fails"
    /\ Searched(i)
    /\ trace[i].handled.links = FallbackLinks

----------------------------------------------------------------------------
(* The sales call                                                          *)

\* the sales turns handled so far
SalesTurns == { i \in 1..Len(trace) : trace[i].endpoint = "sales" }

\* the call is ended, with a summary, exactly when the reply of the turn
\* holds a terminal phrase
EndedIffTerminal(h) ==
  IF shouldEndCall(h.replyText)
    THEN h.callEnded /\ h.summary # Undefined
    ELSE ~h.callEnded /\ h.summary = Undefined

\* C24: in every sales turn, under either reply strategy, callEnded is true
\* with a summary when the reply of the turn contains a terminal phrase of
\* shouldEndCall, and false with a null summary otherwise
C24_CallEndedIffTerminalPhrase ==
  \A i \in SalesTurns : EndedIffTerminal(trace[i])

\* the same for the turns the completion service answered
AiTurnsEndOnTerminalPhrase ==
  \A i \in SalesTurns : trace[i].strategy = "ai" => EndedIffTerminal(trace[i])

\* a turn that the rules ended has a terminal phrase in its reply
RuleEndedTurnsSayGoodbye ==
  \A i \in SalesTurns : trace[i].callEnded => shouldEndCall(trace[i].replyText)

\* the entries of a history after the first Len - 4
LastFour(history) ==
  { i \in 1..Len(history) : i > Len(history) - 4 }

\* one of the entries at the indexes idx holds one of two words, in any case
Cued(history, idx, w1, w2) ==
  \E i \in idx :
    \/ includes(toLowerCase(history[i].content), w1)
    \/ includes(toLowerCase(history[i].content), w2)

\* the outcome the last four entries of a history call for
ExpectedOutcome(history) ==
  IF Cued(history, LastFour(history), <<"v","i","s","i","t">>, <<"s","c","h","e","d","u","l","e">>) THEN OutcomeVisit
  ELSE IF Cued(history, LastFour(history), <<"n","o","t"," ","i","n","t","e","r","e","s","t","e","d">>, <<"a","l","r","e","a","d","y"," ","b","o","u","g","h","t">>) THEN OutcomeNotInterested
  ELSE IF Cued(history, LastFour(history), <<"c","a","l","l"," ","b","a","c","k">>, <<"l","a","t","e","r">>) THEN OutcomeFollowUp
  ELSE OutcomeDiscussed

\* the sales turns whose summary generateCallSummary wrote
SummarisedTurns ==
  { i \in SalesTurns : trace[i].strategy = "ai" /\ trace[i].summary # Undefined }

\* C25: the summary of a call names the outcome of the last four history
\* entries only: a visit or schedule cue gives 'Site visit scheduled', else a
\* not-interested or already-bought cue 'Customer not interested', else a
\* call-back or later cue 'Follow-up call requested', else 'Discussed
\* property details'
C25_SummaryClassifiesLastFour ==
  \A i \in SummarisedTurns :
    OccursAt(trace[i].summary[1], ExpectedOutcome(trace[i].history), 1)

\* a summary over five entries whose oldest entry alone asks for a visit and
\* whose last four hold a later cue: the outcome is the follow-up call
C25_Witness ==
  \E i \in SummarisedTurns :
    /\ Len(trace[i].history) = 5
    /\ Cued(trace[i].history, {1}, <<"v","i","s","i","t">>, <<"s","c","h","e","d","u","l","e">>)
    /\ ~Cued(trace[i].history, LastFour(trace[i].history), <<"v","i","s","i","t">>, <<"s","c","h","e","d","u","l","e">>)
    /\ Cued(trace[i].history, LastFour(trace[i].history), <<"c","a","l","l"," ","b","a","c","k">>, <<"l","a","t","e","r">>)
    /\ OccursAt(trace[i].summary[1], OutcomeFollowUp, 1)

\* a summary whose last four entries hold both a visit cue and a
\* not-interested cue names the visit
VisitOutranksNotInterested ==
  \E i \in SummarisedTurns :
    /\ Cued(trace[i].history, LastFour(trace[i].history), <<"v","i","s","i","t">>, <<"s","c","h","e","d","u","l","e">>)
    /\ Cued(trace[i].history, LastFour(trace[i].history), <<"n","o","t"," ","i","n","t","e","r","e","s","t","e","d">>, <<"a","l","r","e","a","d","y"," ","b","o","u","g","h","t">>)
    /\ OccursAt(trace[i].summary[1], OutcomeVisit, 1)

\* a summary whose last four entries hold both a not-interested cue and a
\* later cue, and no visit cue, names the customer as not interested
NotInterestedOutranksLater ==
  \E i \in SummarisedTurns :
    /\ ~Cued(trace[i].history, LastFour(trace[i].history), <<"v","i","s","i","t">>, <<"s","c","h","e","d","u","l","e">>)
    /\ Cued(trace[i].history, LastFour(trace[i].history), <<"n","o","t"," ","i","n","t","e","r","e","s","t","e","d">>, <<"a","l","r","e","a","d","y"," ","b","o","u","g","h","t">>)
    /\ Cued(trace[i].history, LastFour(trace[i].history), <<"c","a","l","l"," ","b","a","c","k">>, <<"l","a","t","e","r">>)
    /\ OccursAt(trace[i].summary[1], OutcomeNotInterested, 1)

\* the messages exchanged in the call of turn i when its summary is written:
\* an utterance and a reply for each earlier turn of the session, and the
\* utterance of turn i
MessagesExchanged(i) ==
  2 * Cardinality({ j \in SalesTurns : j < i /\ trace[j].sessionId = trace[i].sessionId }) + 1

\* max(1, floor(n / 2))
HalfAtLeastOne(n) == IF n \div 2 >= 1 THEN n \div 2 ELSE 1

\* the summary of turn i reports a duration of n minutes
ReportsDuration(i, n) ==
  includes(trace[i].summary[1], SummaryDuration \o numberToString(n) \o SummaryNextSteps)

\* C26: the duration reported in a call summary is max(1, floor(turnCount/2))
\* minutes, turnCount being the number of messages exchanged in the call so
\* far
C26_DurationFollowsCallLength ==
  \A i \in SummarisedTurns : ReportsDuration(i, HalfAtLeastOne(MessagesExchanged(i)))

\* the same while the call has at most ten messages
DurationExactWithinCap ==
  \A i \in SummarisedTurns :
    MessagesExchanged(i) <= HistoryCap + 1
      => ReportsDuration(i, HalfAtLeastOne(MessagesExchanged(i)))

\* a summary reports the duration of the history it was given, which holds
\* at most ten messages
DurationFollowsHistory ==
  \A i \in SummarisedTurns :
    /\ Len(trace[i].history) <= HistoryCap
    /\ ReportsDuration(i, HalfAtLeastOne(Len(trace[i].history)))

\* the summary of the seventh turn of a call reports five minutes
SeventhTurnReportsFive ==
  \E i \in SummarisedTurns : MessagesExchanged(i) = 13 /\ ReportsDuration(i, 5)

----------------------------------------------------------------------------
(* Malformed requests                                                      *)

\* a body lacks a field its route requires
Malformed(route, body) ==
  IF route = "feedback"
    THEN ~Given(body.sessionId) \/ ~Given(body.propertyId) \/ ~Truthy(body.feedback)
    ELSE ~Given(body.sessionId) \/ ~Truthy(body.text)

\* the step handles a request; if the request is malformed it is answered
\* with an error and the store stays as it was
RejectsMalformed ==
  trace' # trace =>
    \A h \in { trace'[Len(trace')] } :
      (h.endpoint = "posted" /\ Malformed(h.route, h.body))
        => h.status = 400 /\ h.handled = <<>> /\ store' = store

\* C21: a /chat or /sales-chat request without a session id or an utterance,
\* and a /feedback request without session id, propertyId or feedback, is
\* rejected with an error and leaves the session store exactly as it was
C21_MalformedRequestsRejected == [][RejectsMalformed]_vars

\* after a well-formed turn has filled the session, a malformed request of
\* each route aimed at that session has been rejected, and the session holds
\* what the turn left
C21_Witness ==
  /\ Len(trace) = 3
  /\ trace[1].endpoint = "posted" /\ trace[1].status = 200
  /\ \A i \in {2, 3} :
       /\ trace[i].endpoint = "posted" /\ trace[i].status = 400
       /\ trace[i].body.sessionId = Some("s1")
  /\ trace[2].route = "feedback" /\ trace[3].route # "feedback"
  /\ Len(getConversationHistory(store, "s1")) = 2

\* a well-formed request is handled
WellFormedHandled ==
  \A i \in 1..Len(trace) :
    (trace[i].endpoint = "posted" /\ ~Malformed(trace[i].route, trace[i].body))
      => trace[i].status = 200 /\ Len(trace[i].handled) = 1

----------------------------------------------------------------------------
(* Voice calls                                                             *)

\* the call data of a session
CallData(session) ==
  <<session.propertyInfo, session.customerInfo, session.callInfo, session.currentState>>

\* the step handles a call request; if the request failed, the call data of
\* its session is what it was
FailedCallLeavesSession ==
  trace' # trace =>
    \A h \in { trace'[Len(trace')] } :
      (/\ h.endpoint = "call"
       /\ h.route \in {"exotel/initiate-call", "twilio/initiate-call"}
       /\ h.status # 200)
        => CallData(get(store', h.sessionId)) = CallData(get(store, h.sessionId))

\* C23: if initiating a voice call fails (the telephony service reports
\* failure or throws), the session's propertyInfo, customerInfo, callInfo
\* and currentState are the same as before the request
C23_FailedCallLeavesSessionUnchanged == [][FailedCallLeavesSession]_vars

\* a failed call request never stores callInfo
FailedCallStoresNoCallInfo ==
  [][trace' # trace =>
      \A h \in { trace'[Len(trace')] } :
        (/\ h.endpoint = "call"
         /\ h.route \in {"exotel/initiate-call", "twilio/initiate-call"}
         /\ h.status # 200)
          => get(store', h.sessionId).callInfo = get(store, h.sessionId).callInfo]_vars

\* after a single call request that failed the session is left initiating a
\* voice call, with the customer of the request
FailedCallLeftInitiating ==
  /\ Len(trace) = 1
  /\ trace[1].endpoint = "call" /\ trace[1].status = 400
  /\ get(store, "s1").currentState = "initiating_voice_call"
  /\ get(store, "s1").customerInfo # <<>>
  /\ get(store, "s1").callInfo = <<>>

\* the state a call status leads to
StateAfter(status, currentState) ==
  CASE status = "in-progress" -> "voice_call_active"
    [] status \in {"completed", "failed"} -> "call_ended"
    [] OTHER -> currentState

\* what a status webhook has no business with
Conversation(session) ==
  <<session.requirements, session.conversationHistory,
    session.propertySearchHistory, session.userFeedback>>

\* the step handles a status webhook of a session: the state follows the
\* status and the conversation is what it was
WebhookSetsState ==
  trace' # trace =>
    \A h \in { trace'[Len(trace')] } :
      (/\ h.endpoint = "call"
       /\ h.route \in {"exotel/call-status", "twilio/status-webhook"}
       /\ Given(h.sessionId))
        => \A before \in { get(store, h.sessionId[1]) } :
           \A after \in { get(store', h.sessionId[1]) } :
             /\ after.currentState = StateAfter(h.result, before.currentState)
             /\ Conversation(after) = Conversation(before)

\* C27: a call-status webhook of a session sets currentState to
\* voice_call_active on 'in-progress', to call_ended on 'completed' or
\* 'failed', and leaves it unchanged on every other status; requirements,
\* history and logs are not modified
C27_WebhookFollowsCallStatus == [][WebhookSetsState]_vars

\* a session that has chatted got an 'in-progress' and then a 'busy' status:
\* the call is still active and the two history entries are there
C27_Witness ==
  /\ Len(trace) = 3
  /\ trace[1].endpoint = "chat"
  /\ trace[2].endpoint = "call" /\ trace[2].result = "in-progress"
  /\ trace[3].endpoint = "call" /\ trace[3].result = "busy"
  /\ get(store, "s1").currentState = "voice_call_active"
  /\ Len(getConversationHistory(store, "s1")) = 2
  /\ getRequirements(store, "s1").city # Undefined

\* a webhook without session changes nothing
WebhookWithoutSession ==
  [][trace' # trace =>
      \A h \in { trace'[Len(trace')] } :
        (h.endpoint = "call" /\ h.route = "exotel/call-status" /\ ~Given(h.sessionId))
          => store' = store]_vars

----------------------------------------------------------------------------
(* The customer declines                                                   *)

\* an utterance holds one of the four cues of the not-interested rule
Declines(text) ==
  \/ includes(toLowerCase(text), <<"n","o","t"," ","i","n","t","e","r","e","s","t","e","d">>)
  \/ includes(toLowerCase(text), <<"a","l","r","e","a","d","y"," ","b","o","u","g","h","t">>)
  \/ includes(toLowerCase(text), <<"f","o","u","n","d">>)
  \/ includes(toLowerCase(text), <<"d","o","n","'","t"," ","n","e","e","d">>)

\* the turn was closed: the closing reply, the call ended, a summary that
\* gives the reason
Closed(h) ==
  /\ h.replyText = SalesGoodbye
  /\ h.callEnded
  /\ h.summary # Undefined
  /\ OccursAt(h.summary[1], SalesClosedStart, 1)

\* the rule-based sales turns after the first of their call
LaterRuleTurns ==
  { i \in SalesTurns : trace[i].strategy = "rule" /\ Len(trace[i].history) > 1 }

\* C38: in the rule-based sales strategy, after the first turn, an utterance
\* that holds 'not interested', 'already bought', 'found' or "don't need"
\* gets the closing reply with callEnded true and a 'Call completed. Reason:'
\* summary
C38_DecliningUtteranceCloses ==
  \A i \in LaterRuleTurns : Declines(trace[i].text) => Closed(trace[i])

\* the same for the utterances that hold no 'no'
DecliningWithoutNoCloses ==
  \A i \in LaterRuleTurns :
    (Declines(trace[i].text) /\ ~includes(toLowerCase(trace[i].text), <<"n","o">>))
      => Closed(trace[i])

\* 'Not interested' as the second utterance of a call is asked for two minutes
NotInterestedAskedForTwoMinutes ==
  /\ Len(trace) = 2
  /\ trace[2].endpoint = "sales" /\ trace[2].text = SaysNotInterested
  /\ trace[2].replyText = SalesTwoMinutes
  /\ ~trace[2].callEnded /\ trace[2].summary = Undefined

\* a turn closed on 'already bought' gives the purchase as the reason
AlreadyBoughtClosed ==
  \E i \in LaterRuleTurns :
    /\ trace[i].text = SaysAlreadyBought
    /\ Closed(trace[i])
    /\ trace[i].summary[1] = SalesClosedStart \o ReasonAlready \o SalesClosedEnd

----------------------------------------------------------------------------
(* Slot extraction                                                         *)

\* the calls of extractRequirements made so far
Extractions == { i \in 1..Len(trace) : trace[i].endpoint = "extracted" }

\* s ends with suffix
EndsWith(s, suffix) ==
  Len(suffix) <= Len(s) /\ OccursAt(s, suffix, Len(s) - Len(suffix) + 1)

\* localities and recognised cities an utterance may name
NamedLocalities == { <<"L","a","j","p","a","t"," ","N","a","g","a","r">>, <<"A","n","d","h","e","r","i">> }
NamedCities == { <<"D","e","l","h","i">>, <<"M","u","m","b","a","i">> }

\* the utterance has the form '... in <locality> <city>'
InLocalityCity(text, locality, city) ==
  EndsWith(text, <<"i","n"," ">> \o locality \o <<" ">> \o city)

\* the utterance names a city, and 'in' at most, before it
CityAlone(text, city) ==
  text = city \/ text = <<"i","n"," ">> \o city

\* neither the city nor the locality is set
PlaceUnset(requirements) ==
  ~Truthy(requirements.city) /\ ~Truthy(requirements.locality)

\* an utterance '... in <locality> <city>' sets both slots
CompoundSetsBoth ==
  \A i \in Extractions :
    \A locality \in NamedLocalities, city \in NamedCities :
      (PlaceUnset(trace[i].currentRequirements) /\ InLocalityCity(trace[i].text, locality, city))
        => /\ trace[i].requirements.locality = Some(locality)
           /\ trace[i].requirements.city = Some(city)

\* an utterance that names a city alone sets the city and no locality
CityAloneSetsCity ==
  \A i \in Extractions :
    \A city \in NamedCities :
      (PlaceUnset(trace[i].currentRequirements) /\ CityAlone(trace[i].text, city))
        => /\ trace[i].requirements.city = Some(city)
           /\ trace[i].requirements.locality = Undefined

\* C31: on unset slots, an utterance '... in <locality> <city>' with a
\* recognised city sets locality to the words between 'in' and the city and
\* city to that city, and an utterance that names a recognised city alone
\* (as 'in Mumbai') sets the city and leaves the locality unset
C31_CityAndLocalityExtraction == CompoundSetsBoth /\ CityAloneSetsCity

\* the example of the compound form: both slots and the configuration
LajpatNagarDelhiExtracted ==
  \E i \in Extractions :
    /\ trace[i].text = UtterLajpatNagarDelhi
    /\ trace[i].currentRequirements = EmptyRequirements
    /\ trace[i].requirements.city = Some(<<"D","e","l","h","i">>)
    /\ trace[i].requirements.locality = Some(<<"L","a","j","p","a","t"," ","N","a","g","a","r">>)
    /\ trace[i].requirements.bhk = Some(<<"2","B","H","K">>)

\* 'in Mumbai' on unset slots sets the locality to 'in'
InMumbaiSetsLocalityIn ==
  \E i \in Extractions :
    /\ trace[i].text = UtterInMumbai
    /\ PlaceUnset(trace[i].currentRequirements)
    /\ trace[i].requirements.city = Some(<<"M","u","m","b","a","i">>)
    /\ trace[i].requirements.locality = Some(<<"i","n">>)

\* a city named without 'in' sets the city and no locality
BareCitySetsCity ==
  \A i \in Extractions :
    \A city \in NamedCities :
      (PlaceUnset(trace[i].currentRequirements) /\ trace[i].text = city)
        => /\ trace[i].requirements.city = Some(city)
           /\ trace[i].requirements.locality = Undefined

\* the budget patterns in the order crore, lakh, thousand or k, 'budget N',
\* 'around N', by their place in budgetPatterns
DenominationOrder == <<2, 1, 3, 6, 4, 5>>

\* the budget the first matching pattern of that order gives
BudgetByDenomination(lower) ==
  LET hit == { k \in 1..Len(DenominationOrder) :
                 budgetMatch(DenominationOrder[k], lower) # Undefined }
  IN  IF hit = {} THEN Undefined
      ELSE Some(budgetText(DenominationOrder[Min(hit)],
                           budgetMatch(DenominationOrder[Min(hit)], lower)[1]))

\* the extractions that met no budget
BudgetExtractions ==
  { i \in Extractions : ~Truthy(trace[i].currentRequirements.budget) }

\* C32: extraction on an unset budget applies the patterns in the order
\* crore, lakh, thousand or k, generic 'budget N' and 'around N'; the first
\* that matches decides the value, written 'N Crore', 'N Lakh' or 'NK', a
\* generic match as Lakh
C32_BudgetPatternOrder ==
  \A i \in BudgetExtractions :
    trace[i].requirements.budget = BudgetByDenomination(toLowerCase(trace[i].text))

\* the same for the utterances that do not name both crore and lakh
SingleDenominationAgrees ==
  \A i \in BudgetExtractions :
    ~(includes(toLowerCase(trace[i].text), <<"c","r","o","r","e">>) /\ includes(toLowerCase(trace[i].text), <<"l","a","k","h">>))
      => trace[i].requirements.budget = BudgetByDenomination(toLowerCase(trace[i].text))

\* the examples: 'around 85 lakh' gives '85 Lakh', '60k rent' gives '60K',
\* 'budget 40' gives '40 Lakh'
BudgetExamples ==
  \A i \in BudgetExtractions :
    /\ trace[i].text = UtterAround85Lakh => trace[i].requirements.budget = Some(<<"8","5"," ","L","a","k","h">>)
    /\ trace[i].text = Utter60kRent => trace[i].requirements.budget = Some(<<"6","0","K">>)
    /\ trace[i].text = UtterBudget40 => trace[i].requirements.budget = Some(<<"4","0"," ","L","a","k","h">>)

\* '1 crore 50 lakh' on an unset budget gives '50 Lakh'
CroreAndLakhGivesLakh ==
  \E i \in BudgetExtractions :
    /\ trace[i].text = UtterCroreAndLakh
    /\ trace[i].requirements.budget = Some(<<"5","0"," ","L","a","k","h">>)
    /\ BudgetByDenomination(toLowerCase(trace[i].text)) = Some(<<"1"," ","C","r","o","r","e">>)

----------------------------------------------------------------------------
(* The confirmation flags of complete requirements                         *)

\* exactly one of the two flags is true, and the requirements wait for
\* confirmation exactly when they are complete and not confirmed
OneFlagWhenComplete(r) ==
  /\ AllSet(r) => (IsTrue(r.confirmed) # IsTrue(r.waitingForConfirmation))
  /\ IsTrue(r.waitingForConfirmation) <=> (AllSet(r) /\ ~IsTrue(r.confirmed))

\* C33: at the end of every chat turn in which propertyType, city and bhk
\* are all set, exactly one of confirmed and waitingForConfirmation is true,
\* so that waitingForConfirmation is true exactly when the requirements are
\* complete and not confirmed
C33_CompleteIsConfirmedOrWaiting ==
  /\ \A i \in ChatTurns : OneFlagWhenComplete(trace[i].persisted)
  /\ \A id \in SessionIds : OneFlagWhenComplete(getRequirements(store, id))

\* a session that was waiting heard a revision without new requirements and
\* waits again; later it was confirmed
C33_Witness ==
  \E i, j, k \in ChatTurns :
    /\ i < j /\ j < k
    /\ IsTrue(trace[j].currentRequirements.waitingForConfirmation)
    /\ hasRevisionCue(toLowerCase(trace[j].text))
    /\ AllSet(trace[j].persisted)
    /\ IsTrue(trace[j].persisted.waitingForConfirmation)
    /\ ~IsTrue(trace[j].persisted.confirmed)
    /\ IsTrue(trace[k].persisted.confirmed)
    /\ ~IsTrue(trace[k].persisted.waitingForConfirmation)

----------------------------------------------------------------------------
(* The completion request                                                  *)

\* the chat turns that built a completion request
ForwardedTurns ==
  { i \in 1..Len(trace) : trace[i].endpoint = "forwarded" /\ trace[i].messages # <<>> }

\* how often the utterance of turn i is a user message of its request
UtteranceCount(i) ==
  Cardinality({ k \in 1..Len(trace[i].messages) :
                  /\ trace[i].messages[k].role = "user"
                  /\ trace[i].messages[k].content = trace[i].text })

\* C34: the message list forwarded to the completion service for a chat turn
\* contains the utterance of the turn exactly once
C34_UtteranceForwardedOnce ==
  \A i \in ForwardedTurns : UtteranceCount(i) = 1

\* the request of the first turn of a session holds the utterance twice: as
\* the last entry of the history and as the final message
FirstTurnForwardsTwice ==
  /\ Len(trace) = 1
  /\ trace[1].endpoint = "forwarded"
  /\ Len(trace[1].messages) = 4
  /\ trace[1].messages[2] = [role |-> "user", content |-> trace[1].text]
  /\ trace[1].messages[4] = [role |-> "user", content |-> trace[1].text]

\* every request holds the utterance at least twice
UtteranceForwardedTwiceOrMore ==
  \A i \in ForwardedTurns : UtteranceCount(i) >= 2

\* the history without its last entry and the final message hold the
\* utterance once, unless the customer said the same before
UtteranceOnceButForHistory ==
  \A i \in ForwardedTurns :
    (\A j \in 1..(i - 1) : trace[j].text # trace[i].text) => UtteranceCount(i) = 2

----------------------------------------------------------------------------
(* Clearing a session with a turn in flight                                *)

\* the last request handled for the session was a clear; a turn of the
\* session that is in flight was therefore suspended when the clear came
ClearedInFlight(id) ==
  /\ inflight[id] # Undefined
  /\ Len(trace) > 0
  /\ trace[Len(trace)].endpoint = "clear"
  /\ trace[Len(trace)].sessionId = id

\* no record, or a record without history and search log
HoldsNothing(slot) ==
  \/ slot = Undefined
  \/ /\ slot[1].conversationHistory = <<>>
     /\ slot[1].propertySearchHistory = <<>>

\* a turn that was in flight when its session was cleared finishes in this
\* step: the store holds nothing of the session
ClearedStaysCleared ==
  \A id \in SessionIds :
    (ClearedInFlight(id) /\ inflight'[id] = Undefined) => HoldsNothing(store'[id])

\* C35: if DELETE /session/:id is processed while a /chat turn of the same
\* id is suspended on an external call, then once the turn has finished the
\* store holds no record of the id, or one without history and search-log
\* entries
C35_ClearIsFinalForTurnsInFlight == [][ClearedStaysCleared]_vars

\* the clear itself leaves no record of the session
ClearLeavesNoRecord ==
  [][trace' # trace =>
      \A h \in { trace'[Len(trace')] } :
        h.endpoint = "clear" => store'[h.sessionId] = Undefined]_vars

\* a turn cleared while it waited for its reply has finished: the session
\* has a record again, whose history is the reply alone
ReplyRecreatesSession ==
  /\ Len(trace) = 2
  /\ trace[1].endpoint = "clear" /\ trace[2].endpoint = "chat"
  /\ inflight["s1"] = Undefined
  /\ store["s1"] # Undefined
  /\ getConversationHistory(store, "s1")
       = <<[role |-> "assistant", content |-> trace[2].replyText]>>

\* a turn cleared while it waited for its search results has finished: the
\* session has a record again, with the search in its log
SearchRecreatesSession ==
  /\ inflight["s1"] = Undefined
  /\ Len(trace) > 1
  /\ trace[Len(trace) - 1].endpoint = "clear"
  /\ trace[Len(trace)].endpoint = "chat"
  /\ trace[Len(trace)].searched # Undefined
  /\ getConversationHistory(store, "s1") = <<>>
  /\ Len(get(store, "s1").propertySearchHistory) = 1

----------------------------------------------------------------------------
(* The end of a call                                                       *)

\* the record h is of a status webhook that reported status for the call of
\* the session id
StatusReported(h, id, statuses) ==
  /\ h.endpoint = "call"
  /\ h.route \in { "exotel/call-status", "twilio/status-webhook" }
  /\ h.sessionId = Some(id)
  /\ h.result \in statuses

\* the record h is of a 'start' event that was applied to the session id
StreamStarted(h, id) ==
  /\ h.endpoint = "stream"
  /\ h.event = "start"
  /\ h.sessionId = Some(id)

\* the session is in the conversation state named
InState(slot, state) == slot # Undefined /\ slot[1].currentState = state

\* the last request handled was a status webhook that reported the call of
\* the session completed or failed, and moved the session to call_ended
EndedByStatus(id) ==
  /\ Len(trace) > 0
  /\ StatusReported(trace[Len(trace)], id, { "completed", "failed" })
  /\ InState(store[id], "call_ended")

\* the step that follows the end of a call does not make the call active
CallEndedStays ==
  \A id \in SessionIds :
    EndedByStatus(id) => ~InState(store'[id], "voice_call_active")

\* C36: once a 'completed' or 'failed' status has moved a session to
\* call_ended, no status webhook or stream event delivered next puts the
\* session back in voice_call_active
C36_CallEndedIsTerminal == [][CallEndedStays]_vars

\* after the end of a call, only an 'in-progress' status and a 'start' event
\* make the call active
OnlyProgressOrStartReopens ==
  [][\A id \in SessionIds :
       (EndedByStatus(id) /\ trace' # trace /\ InState(store'[id], "voice_call_active"))
         => \A h \in { trace'[Len(trace')] } :
              StatusReported(h, id, { "in-progress" }) \/ StreamStarted(h, id)]_vars

\* a delayed 'in-progress' status follows 'completed' and the call is active
\* again
DelayedInProgressReopens ==
  /\ Len(trace) >= 2
  /\ StatusReported(trace[Len(trace) - 1], "s1", { "completed" })
  /\ StatusReported(trace[Len(trace)], "s1", { "in-progress" })
  /\ InState(store["s1"], "voice_call_active")

\* a 'start' event of the stream follows 'completed' and the call is active
\* again
DelayedStartReopens ==
  /\ Len(trace) >= 2
  /\ StatusReported(trace[Len(trace) - 1], "s1", { "completed" })
  /\ StreamStarted(trace[Len(trace)], "s1")
  /\ InState(store["s1"], "voice_call_active")

----------------------------------------------------------------------------
(* The registry of voice streams                                           *)

\* the socket is open and the registry holds, under the callSid of the
\* socket, a connected entry of this socket
OwnsEntry(conns, socks, ws) ==
  /\ socks[ws] # Undefined
  /\ conns[socks[ws][1].callSid] # Undefined
  /\ conns[socks[ws][1].callSid][1].ws = ws
  /\ conns[socks[ws][1].callSid][1].connected

\* the record h is of an event that ends the connection of the socket ws: its
\* close, its error, its 'stop' message, or the endCall its agent scheduled
EndsConnection(h, ws) ==
  /\ h.endpoint = "stream"
  /\ h.ws = ws
  /\ h.event \in { "close", "error", "stop", "endCall" }

\* the record h is of a message that was applied to a session
AppliedToSession(h) ==
  /\ h.endpoint = "stream"
  /\ h.event \in { "start", "media", "stop" }
  /\ h.sessionId # Undefined

\* a socket that holds its entry keeps it through every step that does not
\* end its own connection
KeepsOwnEntry ==
  \A ws \in SocketIds :
    (OwnsEntry(connections, sockets, ws) /\ trace' # trace)
      => \A h \in { trace'[Len(trace')] } :
           EndsConnection(h, ws) \/ OwnsEntry(connections', sockets', ws)

\* a message is applied to the session its socket connected with
OwnSession ==
  trace' # trace
    => \A h \in { trace'[Len(trace')] } :
         AppliedToSession(h) => h.sessionId = Some(sockets[h.ws][1].sessionId)

\* C37: every open voice stream keeps its own registry entry from connect
\* until its own close, error or stop event, whatever happens to other
\* streams, and its messages are applied to its own session only
C37_ConnectionsAreIndependent == [][KeepsOwnEntry /\ OwnSession]_vars

\* an entry is lost only to an event of another socket with the same callSid
LostOnlyToSameCallSid ==
  [][\A ws \in SocketIds :
       (OwnsEntry(connections, sockets, ws) /\ trace' # trace)
         => \A h \in { trace'[Len(trace')] } :
              \/ EndsConnection(h, ws)
              \/ OwnsEntry(connections', sockets', ws)
              \/ /\ h.endpoint = "stream"
                 /\ h.ws # ws
                 /\ h.callSid = sockets[ws][1].callSid]_vars

\* a message is applied to the session of the entry registered under the
\* callSid of its socket
AppliedToRegisteredSession ==
  [][trace' # trace
       => \A h \in { trace'[Len(trace')] } :
            AppliedToSession(h) => h.sessionId = sessionOf(connections, h.callSid)]_vars

\* two sockets are open under one callSid and the entry is of the second
SecondConnectionTakesEntry ==
  /\ sockets["w1"] # Undefined
  /\ sockets["w2"] # Undefined
  /\ sockets["w1"][1].callSid = sockets["w2"][1].callSid
  /\ OwnsEntry(connections, sockets, "w2")
  /\ trace[Len(trace)].endpoint = "stream"
  /\ trace[Len(trace)].event = "connection"
  /\ trace[Len(trace)].ws = "w2"

\* the close of one socket has removed the entry of the other, which had
\* just connected and is still open
CloseRemovesOthersEntry ==
  /\ Len(trace) >= 2
  /\ sockets["w2"] # Undefined
  /\ connections[sockets["w2"][1].callSid] = Undefined
  /\ trace[Len(trace) - 1].endpoint = "stream"
  /\ trace[Len(trace) - 1].event = "connection"
  /\ trace[Len(trace) - 1].ws = "w2"
  /\ trace[Len(trace)].endpoint = "stream"
  /\ trace[Len(trace)].event = "close"
  /\ trace[Len(trace)].ws = "w1"

\* an audio message of the socket that connected with session s1 has been
\* applied to session s2
MessageAgainstOthersSession ==
  /\ Len(trace) > 0
  /\ AppliedToSession(trace[Len(trace)])
  /\ trace[Len(trace)].event = "media"
  /\ trace[Len(trace)].ws = "w1"
  /\ sockets["w1"] # Undefined
  /\ sockets["w1"][1].sessionId = "s1"
  /\ trace[Len(trace)].sessionId = Some("s2")
  /\ store["s2"] # Undefined
  /\ store["s1"] = Undefined

====
